---- MODULE Spec2Model ----
(***************************************************************************)
(* Model of the vscode-jira extension core:                                *)
(*   - JiraApiClient   (src/src/providers/jiraIssueProvider.ts, 300-633)   *)
(*   - JiraAuthProvider (src/src/auth/jiraAuthProvider.ts, 1-204)          *)
(* Strings whose content matters (base URL, email, token, the serialized   *)
(* secret) are sequences of one-character strings.                         *)
(***************************************************************************)
EXTENDS Integers, Sequences, FiniteSets, TLC

VARIABLES
    axiosInstance,   \* JiraApiClient.axiosInstance: None or Some(transport configuration)
    credentials,     \* JiraApiClient.credentials: None or Some(JiraCredentials)
    stack,           \* call stack of executeWithRetry activations of the current invocation
    requests,        \* remote requests issued by the current invocation, in order
    warnings,        \* showWarningMessage calls of the current invocation, in order
    result,          \* what the current invocation gave its caller once it is over
    secret,          \* context.secrets['jira.credentials']: None or Some(serialized text)
    lastValidated,   \* context.globalState['jira.lastValidated']: None or Some(epoch ms)
    authenticated,   \* the 'jira:authenticated' context flag
    now,             \* Date.now()
    authCall,        \* the last JiraAuthProvider call: its inputs, effects and outcome
    issues,          \* JiraIssueProvider.issues
    isLoading,       \* JiraIssueProvider.isLoading
    rootItems,       \* what the latest getChildren() at the root returned
    expanded,        \* the latest getChildren(element) since: None or Some(element, children)
    loads,           \* the provider's getIssues() calls: how many are in flight, how the last settled
    applied,         \* the latest payload built or error shaped: the input and the outcome
    startup,         \* activate()'s startup check: how far it is, the validations it caused
    inflight,        \* an authenticate() and a getCredentials() that overlap at their awaits
    command,         \* the extension command that ran last, the tree refresh it fired, the load
    transports       \* the axiosInstance each request of the current invocation was sent through

apiVars == <<axiosInstance, credentials, stack, requests, warnings, result>>
authVars == <<secret, lastValidated, authenticated, now, authCall>>
treeVars == <<issues, isLoading, rootItems, expanded, loads>>
auxVars == <<applied, startup, inflight, command, transports>>
vars == <<axiosInstance, credentials, stack, requests, warnings, result,
          secret, lastValidated, authenticated, now, authCall,
          issues, isLoading, rootItems, expanded, loads, applied, startup, inflight, command, transports>>

None == [has |-> FALSE]
Some(v) == [has |-> TRUE, val |-> v]

(***************************************************************************)
(* Bounds of the model                                                     *)
(***************************************************************************)
\* the clock runs from 1 to MaxTicks half-intervals
MaxTicks == 4
\* getIssues() resolves to at most MaxIssues issues
MaxIssues == 2
\* comment texts have at most MaxCommentLen characters
MaxCommentLen == 4

(***************************************************************************)
(* JiraApiClient                                                           *)
(***************************************************************************)
maxRetries == 3
retryDelay == 1000

RECURSIVE Pow2(_)
Pow2(n) == IF n <= 0 THEN 1 ELSE 2 * Pow2(n - 1)

Ops == {"getIssues", "getIssue", "updateIssueStatus", "addComment", "createIssue",
        "getProjects", "getIssueTransitions", "getCurrentUser", "assignIssue"}

\* the operationName each operation hands to executeWithRetry
OperationName(op) ==
    CASE op = "getIssues" -> "fetch issues"
      [] op = "getIssue" -> "fetch issue K-1"
      [] op = "updateIssueStatus" -> "update status for issue K-1"
      [] op = "addComment" -> "add comment to issue K-1"
      [] op = "createIssue" -> "create issue"
      [] op = "getProjects" -> "fetch projects"
      [] op = "getIssueTransitions" -> "fetch transitions for issue K-1"
      [] op = "getCurrentUser" -> "fetch current user"
      [] op = "assignIssue" -> "assign issue K-1"

\* the single request of every operation but createIssue
RequestOf(op) ==
    CASE op = "getIssues" -> "GET /search"
      [] op = "getIssue" -> "GET /issue/{key}"
      [] op = "updateIssueStatus" -> "POST /issue/{key}/transitions"
      [] op = "addComment" -> "POST /issue/{key}/comment"
      [] op = "getProjects" -> "GET /project/search"
      [] op = "getIssueTransitions" -> "GET /issue/{key}/transitions"
      [] op = "getCurrentUser" -> "GET /myself"
      [] op = "assignIssue" -> "PUT /issue/{key}/assignee"

Endpoints == {RequestOf(op) : op \in Ops \ {"createIssue"}} \cup {"POST /issue"}

\* operations whose promise resolves to no value
VoidOps == {"updateIssueStatus", "addComment", "assignIssue"}

\* what the transport can hand to the response interceptor
ErrorStatuses == {401, 403, 404, 500}
StatusText(status) ==
    CASE status = 401 -> "Unauthorized"
      [] status = 403 -> "Forbidden"
      [] status = 404 -> "Not Found"
      [] status = 500 -> "Internal Server Error"

\* an AxiosError: with error.response (status, statusText and the body, None when the
\* body is not an object), with error.request only, or with neither
ResponseError(status, data) ==
    [kind |-> "response", status |-> status, statusText |-> StatusText(status), data |-> data]
RequestError == [kind |-> "request"]
SetupError == [kind |-> "setup", message |-> "Invalid URL"]

AxiosErrors == {ResponseError(status, None) : status \in ErrorStatuses}
                 \cup {RequestError, SetupError}

\* the bodies an error response can carry: errorMessages and message, each absent or not
ErrorBodies ==
    {None} \cup
    {Some([errorMessages |-> list, message |-> message]) :
        list \in {None, Some(<<>>), Some(<<"Issue does not exist">>),
                  Some(<<"Field is required", "Issue does not exist">>)},
        message \in {None, Some(""), Some("Bad request")}}

\* the errors the shaping is examined on
ShapedErrors == {ResponseError(status, data) : status \in ErrorStatuses, data \in ErrorBodies}
                  \cup {RequestError, SetupError}

\* project lists the service can answer GET /project/search with
ProjectLists == {<<>>, <<"AAA", "BBB">>}

\* a shaping that looks at the body's single message before its error list
handleApiErrorPrefersMessage(error) ==
    IF error.kind = "response"
    THEN LET status == error.status
             data == error.data
             message == "Jira API error (" \o ToString(status) \o ")"
         IN  IF data.has /\ data.val.message.has /\ data.val.message.val # ""
             THEN [msg |-> message \o ": " \o data.val.message.val, status |-> Some(status)]
             ELSE IF data.has /\ data.val.errorMessages.has /\ Len(data.val.errorMessages.val) > 0
             THEN [msg |-> message \o ": " \o data.val.errorMessages.val[1], status |-> Some(status)]
             ELSE [msg |-> message \o ": " \o error.statusText, status |-> Some(status)]
    ELSE IF error.kind = "request"
    THEN [msg |-> "Network error: Unable to connect to Jira. Please check your internet connection.",
          status |-> None]
    ELSE [msg |-> "Request error: " \o error.message, status |-> None]

\* handleApiError: the Error the interceptor rejects with
handleApiError(error) ==
    IF error.kind = "response"
    THEN LET status == error.status
             data == error.data
             message == "Jira API error (" \o ToString(status) \o ")"
         IN  IF data.has /\ data.val.errorMessages.has /\ Len(data.val.errorMessages.val) > 0
             THEN [msg |-> message \o ": " \o data.val.errorMessages.val[1], status |-> Some(status)]
             ELSE IF data.has /\ data.val.message.has /\ data.val.message.val # ""
             THEN [msg |-> message \o ": " \o data.val.message.val, status |-> Some(status)]
             ELSE [msg |-> message \o ": " \o error.statusText, status |-> Some(status)]
    ELSE IF error.kind = "request"
    THEN [msg |-> "Network error: Unable to connect to Jira. Please check your internet connection.",
          status |-> None]
    ELSE [msg |-> "Request error: " \o error.message, status |-> None]

NotAuthenticated == [msg |-> "Not authenticated. Please set credentials first.", status |-> None]
NoAccessibleProjects == [msg |-> "No accessible projects found", status |-> None]
Placeholder(op) == [msg |-> "Failed to " \o OperationName(op) \o " after 3 attempts", status |-> None]

\* a policy that spares only the authentication errors
IsAuthErrorOnly(e) ==
    /\ e.status.has
    /\ (e.status.val = 401 \/ e.status.val = 403)

\* the condition of line 589: authentication errors and client errors are not retried
IsClientError(e) ==
    /\ e.status.has
    /\ \/ e.status.val = 401
       \/ e.status.val = 403
       \/ (e.status.val >= 400 /\ e.status.val < 500)

\* a backoff that starts doubling one attempt early
BackoffDelayDoubled(attempt) == retryDelay * Pow2(attempt)

\* the delay of line 599
BackoffDelay(attempt) == retryDelay * Pow2(attempt - 1)

Value(d) == [kind |-> "value", data |-> d]
Thrown(e) == [kind |-> "error", error |-> e]
Pending == [kind |-> "pending"]

\* a fresh activation of executeWithRetry(operation, operationName); projects keeps what
\* each getProjects() of the activation gave, one per attempt, posted the attempt and
\* the project.key of each POST /issue
NewFrame(op, projectKey) ==
    [op |-> op, projectKey |-> projectKey,
     attempt |-> 1, lastError |-> Placeholder(op),
     pc |-> "run", step |-> IF op = "createIssue" THEN "resolve" ELSE "request",
     key |-> None, log |-> <<>>, warned |-> <<>>, ret |-> Pending,
     projects |-> <<>>, posted |-> <<>>]

Top == stack[Len(stack)]
SetTop(f) == [stack EXCEPT ![Len(stack)] = f]

\* a catch block that keeps the first error it saw as the last error
CatchBlockKeepsFirstError(f, e) ==
    LET f1 == [f EXCEPT !.lastError = IF f.log = <<>> THEN e ELSE @, !.log = Append(@, e)]
    IN  IF IsClientError(e) \/ f1.attempt = maxRetries
        THEN [frame |-> [f1 EXCEPT !.pc = "settled", !.ret = Thrown(f1.lastError)],
              warn |-> <<>>]
        ELSE [frame |-> [f1 EXCEPT !.pc = "wait",
                                   !.warned = Append(@, BackoffDelay(f1.attempt))],
              warn |-> <<[op |-> OperationName(f1.op), attempt |-> f1.attempt,
                          delay |-> BackoffDelay(f1.attempt)]>>]

\* the catch block of executeWithRetry, entered with the attempt's error
CatchBlock(f, e) ==
    LET f1 == [f EXCEPT !.lastError = e, !.log = Append(@, e)]
    IN  IF IsClientError(e) \/ f1.attempt = maxRetries
        THEN [frame |-> [f1 EXCEPT !.pc = "settled", !.ret = Thrown(f1.lastError)],
              warn |-> <<>>]
        ELSE [frame |-> [f1 EXCEPT !.pc = "wait",
                                   !.warned = Append(@, BackoffDelay(f1.attempt))],
              warn |-> <<[op |-> OperationName(f1.op), attempt |-> f1.attempt,
                          delay |-> BackoffDelay(f1.attempt)]>>]

\* the try block's `return await operation()` with the operation's value
ReturnValue(f, d) == [f EXCEPT !.pc = "settled", !.ret = Value(d)]

Idle == result.ret.kind # "pending"

\* setCredentials(credentials)
SetCredentials(c) ==
    /\ credentials' = Some(c)
    /\ axiosInstance' = Some([baseURL |-> c.baseUrl \o <<"/rest/api/3">>,
                               authorization |-> <<"Basic">> \o c.email \o <<":">> \o c.apiToken,
                               timeout |-> 15000])
    /\ UNCHANGED <<stack, requests, warnings, result>>
    /\ UNCHANGED authVars

\* a public operation that goes to executeWithRetry without looking at axiosInstance
InvokeUnguarded(op, projectKey) ==
    /\ Idle
    /\ requests' = <<>>
    /\ warnings' = <<>>
    /\ stack' = <<NewFrame(op, projectKey)>>
    /\ result' = [op |-> op, ret |-> Pending]
    /\ UNCHANGED <<axiosInstance, credentials>>
    /\ UNCHANGED authVars

\* a public operation is called: the guard, then executeWithRetry
Invoke(op, projectKey) ==
    /\ Idle
    /\ requests' = <<>>
    /\ warnings' = <<>>
    /\ IF ~axiosInstance.has \/ (op = "createIssue" /\ ~credentials.has)
       THEN /\ stack' = <<>>
            /\ result' = [op |-> op, ret |-> Thrown(NotAuthenticated)]
       ELSE /\ stack' = <<NewFrame(op, projectKey)>>
            /\ result' = [op |-> op, ret |-> Pending]
    /\ UNCHANGED <<axiosInstance, credentials>>
    /\ UNCHANGED authVars

\* one attempt of an operation with a single request: the request is answered
AttemptOk(d) ==
    /\ stack # <<>> /\ Top.pc = "run" /\ Top.step = "request"
    /\ requests' = Append(requests, RequestOf(Top.op))
    /\ stack' = SetTop(ReturnValue(Top, IF Top.op \in VoidOps THEN None
                                        ELSE IF Top.op = "getProjects" THEN Some(d)
                                        ELSE Some([req |-> Len(requests) + 1])))
    /\ UNCHANGED <<axiosInstance, credentials, warnings, result>>
    /\ UNCHANGED authVars

\* one attempt of an operation with a single request: the request fails
AttemptFail(err) ==
    /\ stack # <<>> /\ Top.pc = "run" /\ Top.step = "request"
    /\ requests' = Append(requests, RequestOf(Top.op))
    /\ LET c == CatchBlock(Top, handleApiError(err))
       IN  /\ stack' = SetTop(c.frame)
           /\ warnings' = warnings \o c.warn
    /\ UNCHANGED <<axiosInstance, credentials, result>>
    /\ UNCHANGED authVars

\* the backoff timer of line 601 fires and the loop goes to the next attempt
BackoffElapsed ==
    /\ stack # <<>> /\ Top.pc = "wait"
    /\ stack' = SetTop([Top EXCEPT !.pc = "run", !.attempt = @ + 1,
                                   !.step = IF Top.op = "createIssue" THEN "resolve" ELSE "request",
                                   !.key = None])
    /\ UNCHANGED <<axiosInstance, credentials, requests, warnings, result>>
    /\ UNCHANGED authVars

\* createIssue's operation starts: request.projectKey || await getDefaultProjectKey()
CreateResolve ==
    /\ stack # <<>> /\ Top.pc = "run" /\ Top.step = "resolve"
    /\ IF Top.projectKey.has
       THEN stack' = SetTop([Top EXCEPT !.step = "post", !.key = Top.projectKey])
       ELSE stack' = Append(SetTop([Top EXCEPT !.step = "awaitProjects"]),
                            NewFrame("getProjects", None))
    /\ UNCHANGED <<axiosInstance, credentials, requests, warnings, result>>
    /\ UNCHANGED authVars

\* a default that takes the last project of the list
LastProjectKey(projects) == projects[Len(projects)]

\* projects[0].key
FirstProjectKey(projects) == projects[1]

\* a getDefaultProjectKey() that does not look at the length of the list
getDefaultProjectKeyUnchecked(settled) ==
    IF settled.kind # "value" THEN settled
    ELSE IF Len(settled.data.val) = 0 THEN Value("undefined")
    ELSE Value(FirstProjectKey(settled.data.val))

\* getDefaultProjectKey() once its getProjects() has settled
getDefaultProjectKey(settled) ==
    IF settled.kind # "value" THEN settled
    ELSE IF Len(settled.data.val) = 0 THEN Thrown(NoAccessibleProjects)
    ELSE Value(FirstProjectKey(settled.data.val))

\* createIssue's operation resumes with the outcome of getDefaultProjectKey()
ProjectsSettled ==
    /\ Len(stack) >= 2 /\ Top.pc = "settled"
    /\ LET child == Top
           parent == [stack[Len(stack) - 1] EXCEPT !.projects = Append(@, child.ret)]
           rest == SubSeq(stack, 1, Len(stack) - 2)
           default == getDefaultProjectKey(child.ret)
       IN  IF default.kind = "value"
           THEN /\ stack' = Append(rest, [parent EXCEPT !.step = "post",
                                                        !.key = Some(default.data)])
                /\ UNCHANGED warnings
           ELSE LET c == CatchBlock(parent, default.error)
                IN  /\ stack' = Append(rest, c.frame)
                    /\ warnings' = warnings \o c.warn
    /\ UNCHANGED <<axiosInstance, credentials, requests, result>>
    /\ UNCHANGED authVars

\* createIssue: POST /issue is answered
CreatePostOk ==
    /\ stack # <<>> /\ Top.pc = "run" /\ Top.step = "post"
    /\ requests' = Append(requests, "POST /issue")
    /\ stack' = SetTop([Top EXCEPT !.step = "get", !.posted = Append(@, [attempt |-> Top.attempt, key |-> Top.key.val])])
    /\ UNCHANGED <<axiosInstance, credentials, warnings, result>>
    /\ UNCHANGED authVars

\* createIssue: POST /issue fails
CreatePostFail(err) ==
    /\ stack # <<>> /\ Top.pc = "run" /\ Top.step = "post"
    /\ requests' = Append(requests, "POST /issue")
    /\ LET c == CatchBlock([Top EXCEPT !.posted = Append(@, [attempt |-> Top.attempt,
                                                                   key |-> Top.key.val])],
                           handleApiError(err))
       IN  /\ stack' = SetTop(c.frame)
           /\ warnings' = warnings \o c.warn
    /\ UNCHANGED <<axiosInstance, credentials, result>>
    /\ UNCHANGED authVars

\* createIssue: the GET of the created issue is answered
CreateGetOk ==
    /\ stack # <<>> /\ Top.pc = "run" /\ Top.step = "get"
    /\ requests' = Append(requests, "GET /issue/{key}")
    /\ stack' = SetTop(ReturnValue(Top, Some([req |-> Len(requests) + 1])))
    /\ UNCHANGED <<axiosInstance, credentials, warnings, result>>
    /\ UNCHANGED authVars

\* createIssue: the GET of the created issue fails
CreateGetFail(err) ==
    /\ stack # <<>> /\ Top.pc = "run" /\ Top.step = "get"
    /\ requests' = Append(requests, "GET /issue/{key}")
    /\ LET c == CatchBlock(Top, handleApiError(err))
       IN  /\ stack' = SetTop(c.frame)
           /\ warnings' = warnings \o c.warn
    /\ UNCHANGED <<axiosInstance, credentials, result>>
    /\ UNCHANGED authVars

\* the promise of the public operation settles and its caller resumes
Settle ==
    /\ Len(stack) = 1 /\ Top.pc = "settled" /\ result.ret.kind = "pending"
    /\ result' = [result EXCEPT !.ret = Top.ret]
    /\ UNCHANGED <<axiosInstance, credentials, stack, requests, warnings>>
    /\ UNCHANGED authVars


(***************************************************************************)
(* Text                                                                    *)
(***************************************************************************)
HTTPS == <<"h", "t", "t", "p", "s", ":", "/", "/">>
Undefined == <<"undefined">>

StartsWith(s, p) == Len(s) >= Len(p) /\ SubSeq(s, 1, Len(p)) = p
Includes(s, ch) == \E i \in 1..Len(s) : s[i] = ch

\* a normalisation that leaves the text as typed
KeepTrailingSlash(s) == s

\* String.prototype.replace(/\/$/, ''): drops one '/' at the end of the text
StripTrailingSlash(s) ==
    IF Len(s) > 0 /\ s[Len(s)] = "/" THEN SubSeq(s, 1, Len(s) - 1) ELSE s

\* the text of a string literal as JSON.stringify writes it
RECURSIVE Escape(_)
Escape(s) ==
    IF s = <<>> THEN <<>>
    ELSE (IF Head(s) = "\"" THEN <<"\\", "\"">>
          ELSE IF Head(s) = "\\" THEN <<"\\", "\\">>
          ELSE <<Head(s)>>) \o Escape(Tail(s))

Quote(s) == <<"\"">> \o Escape(s) \o <<"\"">>

KeyBaseUrl == <<"b", "a", "s", "e", "U", "r", "l">>
KeyEmail == <<"e", "m", "a", "i", "l">>
KeyApiToken == <<"a", "p", "i", "T", "o", "k", "e", "n">>

\* JSON.stringify(credentials) of a JiraCredentials object literal
JSONstringify(c) ==
    <<"{">> \o Quote(KeyBaseUrl) \o <<":">> \o Quote(c.baseUrl) \o <<",">>
            \o Quote(KeyEmail) \o <<":">> \o Quote(c.email) \o <<",">>
            \o Quote(KeyApiToken) \o <<":">> \o Quote(c.apiToken) \o <<"}">>

ParseError == [ok |-> FALSE]

\* JSON.parse of a string literal that opens at s[i - 1]; j scans its characters
RECURSIVE ScanString(_, _, _)
ScanString(s, j, acc) ==
    IF j > Len(s) THEN ParseError
    ELSE IF s[j] = "\"" THEN [ok |-> TRUE, val |-> acc, next |-> j + 1]
    ELSE IF s[j] = "\\"
         THEN IF j + 1 <= Len(s) /\ s[j + 1] \in {"\"", "\\", "/"}
              THEN ScanString(s, j + 2, Append(acc, s[j + 1]))
              ELSE ParseError
    ELSE ScanString(s, j + 1, Append(acc, s[j]))

ParseString(s, i) ==
    IF i <= Len(s) /\ s[i] = "\"" THEN ScanString(s, i + 1, <<>>) ELSE ParseError

SetMember(obj, k, v) ==
    IF k = KeyBaseUrl THEN [obj EXCEPT !.baseUrl = v]
    ELSE IF k = KeyEmail THEN [obj EXCEPT !.email = v]
    ELSE IF k = KeyApiToken THEN [obj EXCEPT !.apiToken = v]
    ELSE obj

\* the members of an object, from s[i] on
RECURSIVE ParseMembers(_, _, _)
ParseMembers(s, i, obj) ==
    LET k == ParseString(s, i)
    IN  IF ~k.ok \/ k.next > Len(s) \/ s[k.next] # ":" THEN ParseError
        ELSE LET v == ParseString(s, k.next + 1)
             IN  IF ~v.ok \/ v.next > Len(s) THEN ParseError
                 ELSE IF s[v.next] = "}"
                      THEN IF v.next = Len(s)
                           THEN [ok |-> TRUE, val |-> SetMember(obj, k.val, v.val)]
                           ELSE ParseError
                 ELSE IF s[v.next] = ","
                      THEN ParseMembers(s, v.next + 1, SetMember(obj, k.val, v.val))
                 ELSE ParseError

\* JSON.parse(stored) as JiraCredentials, for objects with string members
JSONparse(s) ==
    LET empty == [baseUrl |-> Undefined, email |-> Undefined, apiToken |-> Undefined]
    IN  IF Len(s) < 2 \/ s[1] # "{" THEN ParseError
        ELSE IF s[2] = "}" THEN (IF Len(s) = 2 THEN [ok |-> TRUE, val |-> empty] ELSE ParseError)
        ELSE ParseMembers(s, 2, empty)

(***************************************************************************)
(* JiraAuthProvider                                                        *)
(***************************************************************************)
VALIDATION_INTERVAL == 24 * 60 * 60 * 1000
\* the clock advances by half a validation interval
ClockStep == VALIDATION_INTERVAL \div 2

\* the validateInput callbacks of the three input boxes: TRUE when the text is accepted
ValidBaseUrl(v) == ~(v = <<>> \/ ~StartsWith(v, HTTPS))
ValidEmail(v) == ~(v = <<>> \/ ~Includes(v, "@"))
ValidApiToken(v) == ~(v = <<>> \/ Len(v) < 10)

\* texts a user may type; an input box only hands back what its validateInput accepts
TypedBaseUrls == {HTTPS \o <<"x">>, HTTPS \o <<"x", "/">>, HTTPS \o <<"x", "/", "/">>,
                  <<"h", "t", "t", "p", ":", "/", "/", "x">>}
TypedEmails == {<<"a", "\"", "@", "b">>, <<"a", "b">>}
TypedApiTokens == {<<"t", "o", "k", "e", "n", "\\", "1", "2", "3", "4">>, <<"t", "o", "k">>}

\* texts the input boxes accept
AcceptedBaseUrls == {t \in TypedBaseUrls : ValidBaseUrl(t)}
AcceptedEmails == {t \in TypedEmails : ValidEmail(t)}
AcceptedApiTokens == {t \in TypedApiTokens : ValidApiToken(t)}

\* an input box resolves to undefined (cancelled) or to an accepted text; the empty
\* text is the other value the `!value` checks of authenticate() stop at
BaseUrlInputs == {None, Some(<<>>)} \cup {Some(v) : v \in AcceptedBaseUrls}
EmailInputs == {None, Some(<<>>)} \cup {Some(v) : v \in AcceptedEmails}
ApiTokenInputs == {None, Some(<<>>)} \cup {Some(v) : v \in AcceptedApiTokens}

\* a check that only stops at undefined
IsUndefined(value) == ~value.has

\* !value of a string | undefined
Falsy(value) == ~value.has \/ value.val = <<>>

\* answers of GET /rest/api/3/myself as axios hands them over: resolved for 2xx,
\* rejected with error.response otherwise, rejected with error.code without a response
MyselfReplies ==
    {[kind |-> "resolved", status |-> 200, statusText |-> "OK", emailAddress |-> TRUE],
     [kind |-> "resolved", status |-> 200, statusText |-> "OK", emailAddress |-> FALSE],
     [kind |-> "resolved", status |-> 204, statusText |-> "No Content", emailAddress |-> FALSE],
     [kind |-> "rejected", status |-> 401, statusText |-> "Unauthorized"],
     [kind |-> "rejected", status |-> 403, statusText |-> "Forbidden"],
     [kind |-> "rejected", status |-> 500, statusText |-> "Internal Server Error"],
     [kind |-> "failed", code |-> "ENOTFOUND", message |-> "getaddrinfo ENOTFOUND x"],
     [kind |-> "failed", code |-> "ECONNREFUSED", message |-> "connect ECONNREFUSED"],
     [kind |-> "failed", code |-> "ETIMEDOUT", message |-> "timeout of 10000ms exceeded"]}

\* a validation that takes any 200 answer, whatever its body
validateCredentialsIgnoresBody(showSuccessMessage, reply) ==
    IF reply.kind = "resolved"
    THEN IF reply.status # 200
         THEN [ok |-> FALSE, error |-> "Authentication failed: Authentication failed", info |-> FALSE]
         ELSE [ok |-> TRUE, error |-> "", info |-> showSuccessMessage]
    ELSE IF reply.kind = "rejected"
    THEN IF reply.status = 401
         THEN [ok |-> FALSE, error |-> "Invalid email or API token. Please check your credentials.", info |-> FALSE]
         ELSE IF reply.status = 403
         THEN [ok |-> FALSE, error |-> "Access denied. Please check your Jira permissions.", info |-> FALSE]
         ELSE [ok |-> FALSE, info |-> FALSE,
               error |-> "Jira API error: " \o ToString(reply.status) \o " - " \o reply.statusText]
    ELSE IF reply.code = "ENOTFOUND" \/ reply.code = "ECONNREFUSED"
         THEN [ok |-> FALSE, error |-> "Cannot connect to Jira. Please check your base URL and internet connection.", info |-> FALSE]
         ELSE [ok |-> FALSE, error |-> "Authentication failed: " \o reply.message, info |-> FALSE]

\* validateCredentials(credentials, showSuccessMessage) given the service's answer
validateCredentials(showSuccessMessage, reply) ==
    IF reply.kind = "resolved"
    THEN IF reply.status # 200
         THEN [ok |-> FALSE, error |-> "Authentication failed: Authentication failed", info |-> FALSE]
         ELSE IF ~reply.emailAddress
         THEN [ok |-> FALSE, error |-> "Authentication failed: Invalid response from Jira API", info |-> FALSE]
         ELSE [ok |-> TRUE, error |-> "", info |-> showSuccessMessage]
    ELSE IF reply.kind = "rejected"
    THEN IF reply.status = 401
         THEN [ok |-> FALSE, error |-> "Invalid email or API token. Please check your credentials.", info |-> FALSE]
         ELSE IF reply.status = 403
         THEN [ok |-> FALSE, error |-> "Access denied. Please check your Jira permissions.", info |-> FALSE]
         ELSE [ok |-> FALSE, info |-> FALSE,
               error |-> "Jira API error: " \o ToString(reply.status) \o " - " \o reply.statusText]
    ELSE IF reply.code = "ENOTFOUND" \/ reply.code = "ECONNREFUSED"
         THEN [ok |-> FALSE, error |-> "Cannot connect to Jira. Please check your base URL and internet connection.", info |-> FALSE]
         ELSE [ok |-> FALSE, error |-> "Authentication failed: " \o reply.message, info |-> FALSE]

\* a check that already asks for revalidation when exactly the interval has elapsed
shouldRevalidateAtInterval ==
    IF ~lastValidated.has \/ lastValidated.val = 0 THEN TRUE
    ELSE (now - lastValidated.val) >= VALIDATION_INTERVAL

\* shouldRevalidateCredentials()
shouldRevalidateCredentials ==
    IF ~lastValidated.has \/ lastValidated.val = 0 THEN TRUE
    ELSE (now - lastValidated.val) > VALIDATION_INTERVAL

\* the record of one JiraAuthProvider call: what was typed, what it returned or threw,
\* the answers to the validation requests and to the status requests it issued, the
\* input boxes and messages it showed, the stores and the clock as the call found them,
\* and what was typed at the latest authenticate() that succeeded
AuthCall(op, input, ret, validated, probed, prompts, info, warn, lastAuth) ==
    [op |-> op, input |-> input, ret |-> ret, validated |-> validated,
     probed |-> probed, prompts |-> prompts, info |-> info, warn |-> warn,
     before |-> [secret |-> secret, lastValidated |-> lastValidated,
                 authenticated |-> authenticated, now |-> now],
     lastAuth |-> lastAuth]

\* no request was issued, so nothing answers
NoReply == [kind |-> "none"]
RepliesTo(issued) == IF issued THEN MyselfReplies ELSE {NoReply}

\* an authenticate() that stores the credentials before it validates them
AuthenticateStoresFirst(baseUrl, email, apiToken, reply) ==
    LET input == Some([baseUrl |-> baseUrl, email |-> email, apiToken |-> apiToken])
    IN
    IF Falsy(baseUrl) \/ Falsy(email) \/ Falsy(apiToken)
    THEN /\ authCall' = AuthCall("authenticate", input, Thrown("input is required"),
                                 <<>>, <<>>, 1, FALSE, FALSE, authCall.lastAuth)
         /\ UNCHANGED <<secret, lastValidated, authenticated, now>>
    ELSE LET creds == [baseUrl |-> StripTrailingSlash(baseUrl.val),
                       email |-> email.val, apiToken |-> apiToken.val]
             v == validateCredentials(TRUE, reply)
         IN  /\ secret' = Some(JSONstringify(creds))
             /\ authCall' = AuthCall("authenticate", input,
                                     IF v.ok THEN Value(Some(creds)) ELSE Thrown(v.error),
                                     <<reply>>, <<>>, 3, v.info, FALSE,
                                     IF v.ok THEN input ELSE authCall.lastAuth)
             /\ UNCHANGED <<lastValidated, authenticated, now>>

\* authenticate()
Authenticate(baseUrl, email, apiToken, reply) ==
    LET input == Some([baseUrl |-> baseUrl, email |-> email, apiToken |-> apiToken])
    IN
    IF Falsy(baseUrl)
    THEN /\ authCall' = AuthCall("authenticate", input, Thrown("Base URL is required"),
                                 <<>>, <<>>, 1, FALSE, FALSE, authCall.lastAuth)
         /\ UNCHANGED <<secret, lastValidated, authenticated, now>>
    ELSE IF Falsy(email)
    THEN /\ authCall' = AuthCall("authenticate", input, Thrown("Email is required"),
                                 <<>>, <<>>, 2, FALSE, FALSE, authCall.lastAuth)
         /\ UNCHANGED <<secret, lastValidated, authenticated, now>>
    ELSE IF Falsy(apiToken)
    THEN /\ authCall' = AuthCall("authenticate", input, Thrown("API token is required"),
                                 <<>>, <<>>, 3, FALSE, FALSE, authCall.lastAuth)
         /\ UNCHANGED <<secret, lastValidated, authenticated, now>>
    ELSE LET creds == [baseUrl |-> StripTrailingSlash(baseUrl.val),
                       email |-> email.val, apiToken |-> apiToken.val]
             v == validateCredentials(TRUE, reply)
         IN  IF ~v.ok
             THEN /\ authCall' = AuthCall("authenticate", input, Thrown(v.error),
                                          <<reply>>, <<>>, 3, FALSE, FALSE, authCall.lastAuth)
                  /\ UNCHANGED <<secret, lastValidated, authenticated, now>>
             ELSE /\ secret' = Some(JSONstringify(creds))
                  /\ authCall' = AuthCall("authenticate", input, Value(Some(creds)),
                                          <<reply>>, <<>>, 3, v.info, FALSE, input)
                  /\ UNCHANGED <<lastValidated, authenticated, now>>

\* a clear that forgets to drop the last-validated timestamp
clearCredentialsKeepsTimestamp ==
    [secret |-> None, lastValidated |-> lastValidated, authenticated |-> FALSE]

\* clearCredentials(): what it leaves in the stores and in the context flag
clearCredentials == [secret |-> None, lastValidated |-> None, authenticated |-> FALSE]

\* a getCredentials() that leaves a secret it cannot deserialize where it is
getCredentialsKeepsCorrupted(reply) ==
    LET keep == [secret |-> secret, lastValidated |-> lastValidated, authenticated |-> authenticated]
    IN
    IF secret.has /\ secret.val # <<>>
    THEN LET parsed == JSONparse(secret.val)
         IN  IF ~parsed.ok
             THEN [store |-> keep, ret |-> None, validated |-> <<>>, warn |-> FALSE]
             ELSE IF shouldRevalidateCredentials
             THEN IF validateCredentials(FALSE, reply).ok
                  THEN [store |-> [keep EXCEPT !.lastValidated = Some(now)],
                        ret |-> Some(parsed.val), validated |-> <<reply>>, warn |-> FALSE]
                  ELSE [store |-> clearCredentials, ret |-> None, validated |-> <<reply>>, warn |-> TRUE]
             ELSE [store |-> keep, ret |-> Some(parsed.val), validated |-> <<>>, warn |-> FALSE]
    ELSE [store |-> keep, ret |-> None, validated |-> <<>>, warn |-> FALSE]

\* getCredentials() given the service's answer to a validation request, should one be
\* issued: the stores afterwards, the returned value (None is null), the answers to
\* the validation requests issued and whether the expiry warning was shown
getCredentials(reply) ==
    LET keep == [secret |-> secret, lastValidated |-> lastValidated, authenticated |-> authenticated]
    IN
    IF secret.has /\ secret.val # <<>>
    THEN LET parsed == JSONparse(secret.val)
         IN  IF ~parsed.ok
             THEN [store |-> clearCredentials, ret |-> None, validated |-> <<>>, warn |-> FALSE]
             ELSE IF shouldRevalidateCredentials
             THEN IF validateCredentials(FALSE, reply).ok
                  THEN [store |-> [keep EXCEPT !.lastValidated = Some(now)],
                        ret |-> Some(parsed.val), validated |-> <<reply>>, warn |-> FALSE]
                  ELSE [store |-> clearCredentials, ret |-> None, validated |-> <<reply>>, warn |-> TRUE]
             ELSE [store |-> keep, ret |-> Some(parsed.val), validated |-> <<>>, warn |-> FALSE]
    ELSE [store |-> keep, ret |-> None, validated |-> <<>>, warn |-> FALSE]

\* whether getCredentials() called now issues a validation request
ValidationIssued ==
    getCredentials([kind |-> "failed", code |-> "ETIMEDOUT", message |-> ""]).validated # <<>>

\* a caller awaits getCredentials()
GetCredentials(reply) ==
    LET g == getCredentials(reply)
    IN  /\ secret' = g.store.secret
        /\ lastValidated' = g.store.lastValidated
        /\ authenticated' = g.store.authenticated
        /\ authCall' = AuthCall("getCredentials", None, Value(g.ret), g.validated, <<>>, 0,
                                FALSE, g.warn, authCall.lastAuth)
        /\ UNCHANGED now

\* a clear that leaves the 'jira:authenticated' context flag as it is
ClearCredentialsKeepsContext ==
    /\ secret' = clearCredentials.secret
    /\ lastValidated' = clearCredentials.lastValidated
    /\ authCall' = AuthCall("clearCredentials", None, Value(None), <<>>, <<>>, 0,
                            FALSE, FALSE, authCall.lastAuth)
    /\ UNCHANGED <<authenticated, now>>

\* a caller awaits clearCredentials()
ClearCredentials ==
    /\ secret' = clearCredentials.secret
    /\ lastValidated' = clearCredentials.lastValidated
    /\ authenticated' = clearCredentials.authenticated
    /\ authCall' = AuthCall("clearCredentials", None, Value(None), <<>>, <<>>, 0,
                            FALSE, FALSE, authCall.lastAuth)
    /\ UNCHANGED now

\* isAuthenticated()
IsAuthenticated(reply) ==
    LET g == getCredentials(reply)
    IN  /\ secret' = g.store.secret
        /\ lastValidated' = g.store.lastValidated
        /\ authenticated' = g.store.authenticated
        /\ authCall' = AuthCall("isAuthenticated", None, Value(Some(g.ret # None)),
                                g.validated, <<>>, 0, FALSE, g.warn, authCall.lastAuth)
        /\ UNCHANGED now

\* getAuthenticationStatus(): reply answers the validation request of getCredentials(),
\* probe answers the status request
GetAuthenticationStatus(reply, probe) ==
    LET g == getCredentials(reply)
    IN  /\ secret' = g.store.secret
        /\ lastValidated' = g.store.lastValidated
        /\ authenticated' = g.store.authenticated
        /\ authCall' =
             IF ~g.ret.has
             THEN AuthCall("getAuthenticationStatus", None,
                           Value(Some([authenticated |-> FALSE, baseUrl |-> Undefined])),
                           g.validated, <<>>, 0, FALSE, g.warn, authCall.lastAuth)
             ELSE IF probe.kind = "resolved"
             THEN AuthCall("getAuthenticationStatus", None,
                           Value(Some([authenticated |-> TRUE, baseUrl |-> g.ret.val.baseUrl])),
                           g.validated, <<probe>>, 0, FALSE, g.warn, authCall.lastAuth)
             ELSE AuthCall("getAuthenticationStatus", None,
                           Value(Some([authenticated |-> FALSE, baseUrl |-> Undefined])),
                           g.validated, <<probe>>, 0, FALSE, g.warn, authCall.lastAuth)
        /\ UNCHANGED now

\* time passes
Tick ==
    /\ now < MaxTicks * ClockStep
    /\ now' = now + ClockStep
    /\ UNCHANGED <<secret, lastValidated, authenticated, authCall>>

(***************************************************************************)
(* JiraIssueProvider                                                       *)
(***************************************************************************)
UpperCase == <<"A", "B", "C", "D", "E", "F", "G", "H", "I", "J", "K", "L", "M", "N",
              "O", "P", "Q", "R", "S", "T", "U", "V", "W", "X", "Y", "Z">>
LowerCase == <<"a", "b", "c", "d", "e", "f", "g", "h", "i", "j", "k", "l", "m", "n",
              "o", "p", "q", "r", "s", "t", "u", "v", "w", "x", "y", "z">>

\* String.prototype.toLowerCase()
toLowerCase(s) ==
    [i \in 1..Len(s) |->
        IF \E k \in 1..Len(UpperCase) : UpperCase[k] = s[i]
        THEN LowerCase[CHOOSE k \in 1..Len(UpperCase) : UpperCase[k] = s[i]]
        ELSE s[i]]

\* String.prototype.includes(searchString)
IncludesText(s, p) == \E i \in 0..(Len(s) - Len(p)) : SubSeq(s, i + 1, i + Len(p)) = p

Digits == <<"0", "1", "2", "3", "4", "5", "6", "7", "8", "9">>

\* a count as a template literal prints it
RECURSIVE NumberToString(_)
NumberToString(n) ==
    IF n < 10 THEN <<Digits[n + 1]>>
    ELSE NumberToString(n \div 10) \o <<Digits[(n % 10) + 1]>>

\* truncateText(text, maxLength)
truncateText(text, maxLength) ==
    IF Len(text) <= maxLength THEN text
    ELSE SubSeq(text, 1, maxLength - 3) \o <<".", ".", ".">>

InProgress == <<"I", "n", " ", "P", "r", "o", "g", "r", "e", "s", "s">>
ToDo == <<"T", "o", " ", "D", "o">>
Review == <<"R", "e", "v", "i", "e", "w">>
Done == <<"D", "o", "n", "e">>

\* the status filters of the four categories
IsInProgress(issue) ==
    \/ IncludesText(toLowerCase(issue.fields.status.name), <<"p", "r", "o", "g", "r", "e", "s", "s">>)
    \/ IncludesText(toLowerCase(issue.fields.status.name), <<"d", "e", "v", "e", "l", "o", "p", "m", "e", "n", "t">>)
IsToDo(issue) ==
    \/ IncludesText(toLowerCase(issue.fields.status.name), <<"t", "o", " ", "d", "o">>)
    \/ IncludesText(toLowerCase(issue.fields.status.name), <<"o", "p", "e", "n">>)
    \/ IncludesText(toLowerCase(issue.fields.status.name), <<"b", "a", "c", "k", "l", "o", "g">>)
IsReview(issue) ==
    \/ IncludesText(toLowerCase(issue.fields.status.name), <<"r", "e", "v", "i", "e", "w">>)
    \/ IncludesText(toLowerCase(issue.fields.status.name), <<"t", "e", "s", "t", "i", "n", "g">>)
IsDone(issue) ==
    \/ IncludesText(toLowerCase(issue.fields.status.name), <<"d", "o", "n", "e">>)
    \/ IncludesText(toLowerCase(issue.fields.status.name), <<"c", "l", "o", "s", "e", "d">>)
    \/ IncludesText(toLowerCase(issue.fields.status.name), <<"r", "e", "s", "o", "l", "v", "e", "d">>)

\* a JiraTreeItem; a field the item does not have is "undefined" or None
TreeItem(label, collapsibleState, iconPath, contextValue, issue, itemType) ==
    [label |-> label, collapsibleState |-> collapsibleState, iconPath |-> iconPath,
     contextValue |-> contextValue, issue |-> issue, itemType |-> itemType]

\* getIssuesForCategory(category) over the loaded issues
getIssuesForCategory(loaded, category) ==
    LET filteredIssues ==
            CASE category = InProgress -> SelectSeq(loaded, IsInProgress)
              [] category = ToDo -> SelectSeq(loaded, IsToDo)
              [] category = Review -> SelectSeq(loaded, IsReview)
              [] category = Done -> SelectSeq(loaded, IsDone)
              [] OTHER -> loaded
    IN  [i \in 1..Len(filteredIssues) |->
            TreeItem(filteredIssues[i].key \o <<":", " ">>
                        \o truncateText(filteredIssues[i].fields.summary, 40),
                     "None", "undefined", "undefined", Some(filteredIssues[i]), "issue")]

\* the categories array of createCategoryItems() once the counts are filled in
Categories(loaded) ==
    <<[name |-> InProgress, icon |-> "play", count |-> Len(SelectSeq(loaded, IsInProgress))],
      [name |-> ToDo, icon |-> "circle-outline", count |-> Len(SelectSeq(loaded, IsToDo))],
      [name |-> Review, icon |-> "eye", count |-> Len(SelectSeq(loaded, IsReview))],
      [name |-> Done, icon |-> "check", count |-> Len(SelectSeq(loaded, IsDone))]>>

\* category.count > 0
HasIssues(category) == category.count > 0

\* the item createCategoryItems() maps a category to
CategoryItem(category) ==
    TreeItem(category.name \o <<" ", "(">> \o NumberToString(category.count) \o <<")">>,
             "Collapsed", category.icon, "jiraCategory", None, "category")

\* a createCategoryItems() that keeps the categories no issue falls in
createCategoryItemsUnfiltered(loaded) ==
    [i \in 1..Len(Categories(loaded)) |-> CategoryItem(Categories(loaded)[i])]

\* createCategoryItems() over the loaded issues
createCategoryItems(loaded) ==
    LET shown == SelectSeq(Categories(loaded), HasIssues)
    IN  [i \in 1..Len(shown) |-> CategoryItem(shown[i])]

createLoadingItem ==
    TreeItem(<<"L", "o", "a", "d", "i", "n", "g", " ", "J", "i", "r", "a", " ", "i", "s", "s", "u", "e", "s", ".", ".", ".">>,
             "None", "loading~spin", "undefined", None, "category")
createEmptyItem ==
    TreeItem(<<"N", "o", " ", "i", "s", "s", "u", "e", "s", " ", "f", "o", "u", "n", "d">>,
             "None", "info", "jiraEmpty", None, "category")
\* an error item typed by what it reports instead of 'category'
createErrorItemTypedError ==
    TreeItem(<<"F", "a", "i", "l", "e", "d", " ", "t", "o", " ", "l", "o", "a", "d", " ", "i", "s", "s", "u", "e", "s">>,
             "None", "error", "jiraError", None, "error")
createErrorItem ==
    TreeItem(<<"F", "a", "i", "l", "e", "d", " ", "t", "o", " ", "l", "o", "a", "d", " ", "i", "s", "s", "u", "e", "s">>,
             "None", "error", "jiraError", None, "category")

\* getChildren(element) for an element of the tree
getChildrenOf(element) ==
    IF element.itemType = "category"
    THEN getIssuesForCategory(issues, element.label)
    ELSE <<>>

\* status names the service may report
StatusNames ==
    {<<"I", "n", " ", "P", "r", "o", "g", "r", "e", "s", "s">>,
     <<"T", "o", " ", "D", "o">>,
     <<"I", "n", " ", "R", "e", "v", "i", "e", "w">>,
     <<"D", "o", "n", "e">>,
     <<"B", "l", "o", "c", "k", "e", "d">>,
     <<"R", "e", "v", "i", "e", "w", " ", "i", "n", " ", "P", "r", "o", "g", "r", "e", "s", "s">>}

\* the issue lists getIssues() may resolve to: up to MaxIssues issues, keyed by position
IssueLists ==
    {[i \in 1..n |->
        [key |-> <<"K", "-">> \o NumberToString(i),
         fields |-> [summary |-> <<"F", "i", "x">>, status |-> [name |-> names[i]]]]] :
     n \in 0..MaxIssues, names \in [1..MaxIssues -> StatusNames]}

\* a root getChildren() that does not look at isLoading
GetChildrenRootUnguarded ==
    /\ isLoading' = TRUE
    /\ loads' = [inFlight |-> loads.inFlight + 1, settled |-> "none"]
    /\ UNCHANGED <<issues, rootItems, expanded>>
    /\ UNCHANGED <<apiVars, authVars, auxVars>>

\* getChildren() at the root, up to its await of getIssues() or to its early return
GetChildrenRoot ==
    /\ IF isLoading
       THEN /\ rootItems' = <<createLoadingItem>>
            /\ expanded' = None
            /\ loads' = [loads EXCEPT !.settled = "none"]
            /\ UNCHANGED <<issues, isLoading>>
       ELSE /\ isLoading' = TRUE
            /\ loads' = [inFlight |-> loads.inFlight + 1, settled |-> "none"]
            /\ UNCHANGED <<issues, rootItems, expanded>>
    /\ UNCHANGED <<apiVars, authVars, auxVars>>

\* getChildren() at the root once getIssues() has resolved
GetIssuesResolved(loaded) ==
    /\ loads.inFlight > 0
    /\ loads' = [inFlight |-> loads.inFlight - 1, settled |-> "resolved"]
    /\ issues' = loaded
    /\ isLoading' = FALSE
    /\ rootItems' = IF Len(loaded) = 0 THEN <<createEmptyItem>> ELSE createCategoryItems(loaded)
    /\ expanded' = None
    /\ UNCHANGED <<apiVars, authVars, auxVars>>

\* a catch block that drops the cached issues with the failed load
GetIssuesRejectedDropsIssues ==
    /\ loads.inFlight > 0
    /\ loads' = [inFlight |-> loads.inFlight - 1, settled |-> "rejected"]
    /\ isLoading' = FALSE
    /\ issues' = <<>>
    /\ rootItems' = <<createErrorItem>>
    /\ expanded' = None
    /\ UNCHANGED <<apiVars, authVars, auxVars>>

\* getChildren() at the root once getIssues() has rejected
GetIssuesRejected ==
    /\ loads.inFlight > 0
    /\ loads' = [inFlight |-> loads.inFlight - 1, settled |-> "rejected"]
    /\ isLoading' = FALSE
    /\ rootItems' = <<createErrorItem>>
    /\ expanded' = None
    /\ UNCHANGED <<issues, apiVars, authVars, auxVars>>

\* the tree view expands a collapsed item the root gave it
GetChildren(element) ==
    /\ \E i \in 1..Len(rootItems) : rootItems[i] = element
    /\ element.collapsibleState = "Collapsed"
    /\ expanded' = Some([element |-> element, children |-> getChildrenOf(element)])
    /\ UNCHANGED <<issues, isLoading, rootItems, loads, apiVars, authVars, auxVars>>

(***************************************************************************)
(* Payloads and shaped errors                                              *)
(***************************************************************************)
\* comment texts: letters, line breaks and markup characters
CommentAlphabet == {"a", "\n", "<"}
CommentTexts == UNION {[1..n -> CommentAlphabet] : n \in 0..MaxCommentLen}

\* a body that gives every character of the comment a paragraph of its own
addCommentBodyPerCharacter(comment) ==
    [type |-> "doc", version |-> 1,
     content |-> [i \in 1..Len(comment) |->
                    [type |-> "paragraph",
                     content |-> <<[type |-> "text", text |-> <<comment[i]>>]>>]]]

\* the body addComment(issueKey, comment) posts
addCommentBody(comment) ==
    [type |-> "doc", version |-> 1,
     content |-> <<[type |-> "paragraph",
                    content |-> <<[type |-> "text", text |-> comment]>>]>>]

\* Array.prototype.join(separator) over texts
RECURSIVE Join(_, _)
Join(texts, separator) ==
    IF texts = <<>> THEN <<>>
    ELSE IF Len(texts) = 1 THEN texts[1]
    ELSE texts[1] \o separator \o Join(Tail(texts), separator)

\* the comment body as getIssueWebviewContent() flattens it
FlattenCommentBody(body) ==
    IF "content" \in DOMAIN body
    THEN Join([i \in 1..Len(body.content) |->
                  IF "content" \in DOMAIN body.content[i]
                  THEN Join([j \in 1..Len(body.content[i].content) |->
                                body.content[i].content[j].text], <<>>)
                  ELSE <<>>],
              <<"\n">>)
    ELSE <<"N", "o", " ", "c", "o", "n", "t", "e", "n", "t">>

\* addComment builds the body of its POST
AddCommentPosts(comment) ==
    /\ applied' = [fn |-> "addComment", comment |-> comment, body |-> addCommentBody(comment)]
    /\ UNCHANGED <<apiVars, authVars, treeVars, startup, inflight, command, transports>>

\* the response interceptor shapes the error of a failed request
InterceptorRejects(error) ==
    /\ applied' = [fn |-> "handleApiError", error |-> error, shaped |-> handleApiError(error)]
    /\ UNCHANGED <<apiVars, authVars, treeVars, startup, inflight, command, transports>>

(***************************************************************************)
(* Specifications                                                          *)
(***************************************************************************)
\* credential sets a caller can hand to setCredentials
CredentialSets ==
    {[baseUrl |-> StripTrailingSlash(b.val), email |-> e.val, apiToken |-> t.val] :
        b \in {Some(v) : v \in AcceptedBaseUrls}, e \in {Some(v) : v \in AcceptedEmails},
        t \in {Some(v) : v \in AcceptedApiTokens}}

\* no command has run, no refresh is waiting, the tree has not asked for issues
NoCommand == [name |-> "none", running |-> FALSE, refresh |-> FALSE, load |-> None]

Init ==
    /\ axiosInstance = None
    /\ credentials = None
    /\ stack = <<>>
    /\ requests = <<>>
    /\ warnings = <<>>
    /\ result = [op |-> "none", ret |-> [kind |-> "none"]]
    /\ secret = None
    /\ lastValidated = None
    /\ authenticated = FALSE
    /\ now = ClockStep
    /\ authCall = AuthCall("none", None, Value(None), <<>>, <<>>, 0, FALSE, FALSE, None)
    /\ issues = <<>>
    /\ isLoading = FALSE
    /\ rootItems = <<>>
    /\ expanded = None
    /\ loads = [inFlight |-> 0, settled |-> "none"]
    /\ applied = [fn |-> "none"]
    /\ startup = [pc |-> "off", validations |-> 0]
    /\ inflight = [get |-> None, auth |-> None, raced |-> None]
    /\ command = NoCommand
    /\ transports = <<>>

ApiNext ==
    \/ \E c \in CredentialSets : SetCredentials(c) /\ UNCHANGED <<treeVars, auxVars>>
    \/ \E op \in Ops : \E k \in {None, Some("PRJ")} : Invoke(op, IF op = "createIssue" THEN k ELSE None) /\ UNCHANGED <<treeVars, auxVars>>
    \/ \E d \in ProjectLists : AttemptOk(d) /\ UNCHANGED <<treeVars, auxVars>>
    \/ \E err \in AxiosErrors : AttemptFail(err) /\ UNCHANGED <<treeVars, auxVars>>
    \/ BackoffElapsed /\ UNCHANGED <<treeVars, auxVars>>
    \/ CreateResolve /\ UNCHANGED <<treeVars, auxVars>>
    \/ ProjectsSettled /\ UNCHANGED <<treeVars, auxVars>>
    \/ CreatePostOk /\ UNCHANGED <<treeVars, auxVars>>
    \/ \E err \in AxiosErrors : CreatePostFail(err) /\ UNCHANGED <<treeVars, auxVars>>
    \/ CreateGetOk /\ UNCHANGED <<treeVars, auxVars>>
    \/ \E err \in AxiosErrors : CreateGetFail(err) /\ UNCHANGED <<treeVars, auxVars>>
    \/ Settle /\ UNCHANGED <<treeVars, auxVars>>

AuthNext ==
    \/ \E b \in BaseUrlInputs :
         \E e \in (IF Falsy(b) THEN {None} ELSE EmailInputs) :
           \E t \in (IF Falsy(e) THEN {None} ELSE ApiTokenInputs) :
             \E r \in RepliesTo(~Falsy(t)) :
               Authenticate(b, e, t, r) /\ UNCHANGED <<apiVars, treeVars, auxVars>>
    \/ \E r \in RepliesTo(ValidationIssued) : GetCredentials(r) /\ UNCHANGED <<apiVars, treeVars, auxVars>>
    \/ ClearCredentials /\ UNCHANGED <<apiVars, treeVars, auxVars>>
    \/ \E r \in RepliesTo(ValidationIssued) : IsAuthenticated(r) /\ UNCHANGED <<apiVars, treeVars, auxVars>>
    \/ \E r \in RepliesTo(ValidationIssued) :
         \E p \in RepliesTo(getCredentials(r).ret.has) :
           GetAuthenticationStatus(r, p) /\ UNCHANGED <<apiVars, treeVars, auxVars>>
    \/ Tick /\ UNCHANGED <<apiVars, treeVars, auxVars>>

\* the 'jira.authenticate' command after its authenticate() has returned
AuthenticateCommandSetsContext ==
    /\ authCall.op = "authenticate" /\ authCall.ret.kind = "value"
    /\ ~authenticated
    /\ authenticated' = TRUE
    /\ UNCHANGED <<secret, lastValidated, now, authCall>>

\* activate() after its isAuthenticated() has answered true
ActivateSetsContext ==
    /\ authCall.op = "isAuthenticated" /\ authCall.ret = Value(Some(TRUE))
    /\ ~authenticated
    /\ authenticated' = TRUE
    /\ UNCHANGED <<secret, lastValidated, now, authCall>>

\* secrets an activation can find that JSON.parse throws on: a lone brace, text that
\* is no JSON, and a serialization that lost its last character
CorruptSecrets ==
    {<<"{">>, <<"x">>,
     LET t == JSONstringify([baseUrl |-> HTTPS \o <<"x">>, email |-> <<"a", "@", "b">>,
                             apiToken |-> <<"t", "o", "k", "e", "n", "1", "2", "3", "4", "5">>])
     IN  SubSeq(t, 1, Len(t) - 1)}

\* an activation over the stores an earlier session left behind
StoredInit ==
    /\ axiosInstance = None
    /\ credentials = None
    /\ stack = <<>>
    /\ requests = <<>>
    /\ warnings = <<>>
    /\ result = [op |-> "none", ret |-> [kind |-> "none"]]
    /\ \/ secret = None /\ lastValidated = None
       \/ /\ secret \in {Some(c) : c \in CorruptSecrets}
          /\ lastValidated \in {None, Some(ClockStep)}
    /\ authenticated = FALSE
    /\ now = ClockStep
    /\ authCall = [op |-> "none", input |-> None, ret |-> Value(None), validated |-> <<>>,
                   probed |-> <<>>, prompts |-> 0, info |-> FALSE, warn |-> FALSE,
                   before |-> [secret |-> None, lastValidated |-> None,
                               authenticated |-> FALSE, now |-> ClockStep],
                   lastAuth |-> None]
    /\ issues = <<>>
    /\ isLoading = FALSE
    /\ rootItems = <<>>
    /\ expanded = None
    /\ loads = [inFlight |-> 0, settled |-> "none"]
    /\ applied = [fn |-> "none"]
    /\ startup = [pc |-> "off", validations |-> 0]
    /\ inflight = [get |-> None, auth |-> None, raced |-> None]
    /\ command = NoCommand
    /\ transports = <<>>

ExtensionNext ==
    \/ AuthNext
    \/ AuthenticateCommandSetsContext /\ UNCHANGED <<apiVars, treeVars, auxVars>>
    \/ ActivateSetsContext /\ UNCHANGED <<apiVars, treeVars, auxVars>>

TreeNext ==
    \/ GetChildrenRoot
    \/ \E loaded \in IssueLists : GetIssuesResolved(loaded)
    \/ GetIssuesRejected
    \/ \E i \in 1..Len(rootItems) : GetChildren(rootItems[i])

PayloadNext ==
    \/ \E comment \in CommentTexts : AddCommentPosts(comment)
    \/ \E error \in ShapedErrors : InterceptorRejects(error)

\* activate() over stores that hold the credentials of an earlier session: the secret
\* deserializes, and the timestamp is absent (never revalidated) or was written then
StartupInit ==
    /\ axiosInstance = None
    /\ credentials = None
    /\ stack = <<>>
    /\ requests = <<>>
    /\ warnings = <<>>
    /\ result = [op |-> "none", ret |-> [kind |-> "none"]]
    /\ secret \in {Some(JSONstringify(c)) : c \in CredentialSets}
    /\ lastValidated \in {None, Some(ClockStep)}
    /\ authenticated = FALSE
    /\ now = ClockStep
    /\ authCall = [op |-> "none", input |-> None, ret |-> Value(None), validated |-> <<>>,
                   probed |-> <<>>, prompts |-> 0, info |-> FALSE, warn |-> FALSE,
                   before |-> [secret |-> None, lastValidated |-> None,
                               authenticated |-> FALSE, now |-> ClockStep],
                   lastAuth |-> None]
    /\ issues = <<>>
    /\ isLoading = FALSE
    /\ rootItems = <<>>
    /\ expanded = None
    /\ loads = [inFlight |-> 0, settled |-> "none"]
    /\ applied = [fn |-> "none"]
    /\ startup = [pc |-> "off", validations |-> 0]
    /\ inflight = [get |-> None, auth |-> None, raced |-> None]
    /\ command = NoCommand
    /\ transports = <<>>

\* the number of validation requests the activation has issued, after one more call
\* that issued those in `validated`
Validations(validated) == startup.validations + Len(validated)

\* activate(): jiraAuthProvider.isAuthenticated() settles
ActivateIsAuthenticated(reply) ==
    /\ startup.pc = "off"
    /\ IsAuthenticated(reply)
    /\ startup' = [pc |-> "checked", validations |-> Validations(getCredentials(reply).validated)]
    /\ UNCHANGED <<apiVars, treeVars, applied, inflight, command, transports>>

\* activate(): `if (isAuth)` sets the 'jira:authenticated' context
ActivateIfIsAuth ==
    /\ startup.pc = "checked"
    /\ ActivateSetsContext
    /\ startup' = [startup EXCEPT !.pc = "flagged"]
    /\ UNCHANGED <<apiVars, treeVars, applied, inflight, command, transports>>

\* activate(): jiraAuthProvider.getCredentials() settles
ActivateGetCredentials(reply) ==
    /\ startup.pc = "flagged"
    /\ GetCredentials(reply)
    /\ startup' = [pc |-> "read", validations |-> Validations(getCredentials(reply).validated)]
    /\ UNCHANGED <<apiVars, treeVars, applied, inflight, command, transports>>

\* activate(): `if (credentials)` hands them to the API client
ActivateSetCredentials ==
    /\ startup.pc = "read"
    /\ authCall.ret.data.has
    /\ SetCredentials(authCall.ret.data.val)
    /\ startup' = [startup EXCEPT !.pc = "done"]
    /\ UNCHANGED <<treeVars, applied, inflight, command, transports>>

StartupNext ==
    \/ \E r \in RepliesTo(ValidationIssued) : ActivateIsAuthenticated(r)
    \/ ActivateIfIsAuth
    \/ \E r \in RepliesTo(ValidationIssued) : ActivateGetCredentials(r)
    \/ ActivateSetCredentials
    \/ Tick /\ UNCHANGED <<apiVars, treeVars, auxVars>>

\* one call in flight: where it stands, the credentials it holds in its local
\* variable, and what it returned or threw
Call(pc, held, ret) == [pc |-> pc, held |-> held, ret |-> ret]

\* the getCredentials() call is at its `await this.validateCredentials(...)`
GetAwaitsValidation == inflight.get.has /\ inflight.get.val.pc = "validating"

\* getCredentials() up to its await of validateCredentials(), or to its return when
\* it does not revalidate
GetCredentialsReads ==
    /\ ~inflight.get.has
    /\ IF ValidationIssued
       THEN /\ inflight' = [inflight EXCEPT
                              !.get = Some(Call("validating", Some(JSONparse(secret.val).val), Pending))]
            /\ UNCHANGED <<secret, lastValidated, authenticated>>
       ELSE LET g == getCredentials(NoReply)
            IN  /\ secret' = g.store.secret
                /\ lastValidated' = g.store.lastValidated
                /\ authenticated' = g.store.authenticated
                /\ inflight' = [inflight EXCEPT !.get = Some(Call("done", g.ret, Value(g.ret)))]
    /\ UNCHANGED <<now, authCall, apiVars, treeVars, applied, startup, command, transports>>

\* getCredentials() from the answer to its validation request to its return
GetCredentialsValidated(reply) ==
    /\ GetAwaitsValidation
    /\ IF validateCredentials(FALSE, reply).ok
       THEN /\ lastValidated' = Some(now)
            /\ UNCHANGED <<secret, authenticated>>
            /\ inflight' = [inflight EXCEPT
                              !.get = Some(Call("done", inflight.get.val.held,
                                                Value(inflight.get.val.held)))]
       ELSE /\ secret' = clearCredentials.secret
            /\ lastValidated' = clearCredentials.lastValidated
            /\ authenticated' = clearCredentials.authenticated
            /\ inflight' = [inflight EXCEPT
                              !.get = Some(Call("done", inflight.get.val.held, Value(None)))]
    /\ UNCHANGED <<now, authCall, apiVars, treeVars, applied, startup, command, transports>>

\* authenticate() up to its await of validateCredentials(), or to its throw when an
\* input box gave nothing
AuthenticateAsks(baseUrl, email, apiToken) ==
    /\ ~inflight.auth.has
    /\ inflight' = [inflight EXCEPT !.auth =
          IF Falsy(baseUrl) THEN Some(Call("done", None, Thrown("Base URL is required")))
          ELSE IF Falsy(email) THEN Some(Call("done", None, Thrown("Email is required")))
          ELSE IF Falsy(apiToken) THEN Some(Call("done", None, Thrown("API token is required")))
          ELSE Some(Call("validating",
                         Some([baseUrl |-> StripTrailingSlash(baseUrl.val),
                               email |-> email.val, apiToken |-> apiToken.val]),
                         Pending))]
    /\ UNCHANGED <<authVars, apiVars, treeVars, applied, startup, command, transports>>

\* authenticate() from the answer to its validation request to its return; `raced`
\* keeps what it stored when a getCredentials() was awaiting its own validation
AuthenticateValidated(reply) ==
    /\ inflight.auth.has /\ inflight.auth.val.pc = "validating"
    /\ LET v == validateCredentials(TRUE, reply)
           creds == inflight.auth.val.held
       IN  IF ~v.ok
           THEN /\ inflight' = [inflight EXCEPT !.auth = Some(Call("done", creds, Thrown(v.error)))]
                /\ UNCHANGED secret
           ELSE /\ secret' = Some(JSONstringify(creds.val))
                /\ inflight' = [inflight EXCEPT
                                  !.auth = Some(Call("done", creds, Value(creds))),
                                  !.raced = IF GetAwaitsValidation
                                            THEN Some(JSONstringify(creds.val))
                                            ELSE inflight.raced]
    /\ UNCHANGED <<lastValidated, authenticated, now, authCall, apiVars, treeVars, applied, startup, command, transports>>

OverlapNext ==
    \/ GetCredentialsReads
    \/ \E r \in MyselfReplies : GetCredentialsValidated(r)
    \/ \E b \in BaseUrlInputs : \E e \in EmailInputs : \E t \in ApiTokenInputs :
         AuthenticateAsks(b, e, t)
    \/ \E r \in MyselfReplies : AuthenticateValidated(r)
    \/ Tick /\ UNCHANGED <<apiVars, treeVars, auxVars>>

\* activate() over any stores an earlier session can leave: none, corrupted ones, or
\* credentials
CommandsInit == StoredInit \/ StartupInit

\* the startup check of activate() has run as far as it goes
ActivationSettled ==
    \/ startup.pc = "done"
    \/ startup.pc = "read" /\ ~authCall.ret.data.has
    \/ startup.pc = "checked" /\ authCall.op = "isAuthenticated" /\ ~authCall.ret.data.val

\* no command is executing and the startup check is over
CommandIdle ==
    /\ ~command.running
    /\ IF command.name = "none" THEN ActivationSettled ELSE TRUE

\* a getIssues() call of the API client: who called, whether a request left, the
\* Authorization header it carried, and the secret storage held at that moment
GetIssuesCall(by) ==
    [by |-> by, sent |-> axiosInstance.has,
     authorization |-> IF axiosInstance.has THEN axiosInstance.val.authorization ELSE <<>>,
     stored |-> secret]

\* the answers to a validation request while commands run: accepted, refused, no
\* answer in time
CommandReplies ==
    {r \in MyselfReplies : \/ r.kind = "resolved" /\ r.status = 200 /\ r.emailAddress
                           \/ r.kind = "rejected" /\ r.status = 401
                           \/ r.kind = "failed" /\ r.code = "ETIMEDOUT"}
CommandRepliesTo(issued) == IF issued THEN CommandReplies ELSE {NoReply}

\* what the user gives the input boxes while commands run: a base URL with no or
\* with two trailing slashes, or nothing; the accepted email and token
CommandBaseUrls == {None, Some(HTTPS \o <<"x">>), Some(HTTPS \o <<"x", "/", "/">>)}

\* a step of the startup check, before any command has run
StartupCheck ==
    /\ command.name = "none"
    /\ \/ \E r \in CommandRepliesTo(ValidationIssued) : ActivateIsAuthenticated(r)
       \/ ActivateIfIsAuth
       \/ \E r \in CommandRepliesTo(ValidationIssued) : ActivateGetCredentials(r)
       \/ ActivateSetCredentials

\* a 'jira.authenticate' that goes on to setContext and refresh() after a throw too
CommandAuthenticateIgnoresThrow(baseUrl, email, apiToken, reply) ==
    /\ CommandIdle
    /\ Authenticate(baseUrl, email, apiToken, reply)
    /\ command' = [name |-> "jira.authenticate", running |-> TRUE,
                   refresh |-> command.refresh, load |-> None]
    /\ UNCHANGED <<apiVars, treeVars, applied, startup, inflight, transports>>

\* 'jira.authenticate': await jiraAuthProvider.authenticate(); a throw goes to the
\* catch block, which shows the error
CommandAuthenticate(baseUrl, email, apiToken, reply) ==
    /\ CommandIdle
    /\ Authenticate(baseUrl, email, apiToken, reply)
    /\ command' = [name |-> "jira.authenticate", running |-> authCall'.ret.kind = "value",
                   refresh |-> command.refresh, load |-> None]
    /\ UNCHANGED <<apiVars, treeVars, applied, startup, inflight, transports>>

\* 'jira.authenticate' after authenticate() returned: setContext and refresh()
CommandAuthenticateReturns ==
    /\ command.running /\ command.name = "jira.authenticate"
    /\ authenticated' = TRUE
    /\ command' = [command EXCEPT !.running = FALSE, !.refresh = TRUE]
    /\ UNCHANGED <<secret, lastValidated, now, authCall>>
    /\ UNCHANGED <<apiVars, treeVars, applied, startup, inflight, transports>>

\* 'jira.clearCredentials': clearCredentials(), the message and refresh()
CommandClearCredentials ==
    /\ CommandIdle
    /\ ClearCredentials
    /\ command' = [name |-> "jira.clearCredentials", running |-> FALSE,
                   refresh |-> TRUE, load |-> None]
    /\ UNCHANGED <<apiVars, treeVars, applied, startup, inflight, transports>>

\* 'jira.viewIssues': await jiraAuthProvider.getCredentials(); null ends the command
\* with a warning
CommandViewIssues(reply) ==
    /\ CommandIdle
    /\ GetCredentials(reply)
    /\ command' = [name |-> "jira.viewIssues", running |-> authCall'.ret.data.has,
                   refresh |-> command.refresh, load |-> None]
    /\ UNCHANGED <<apiVars, treeVars, applied, startup, inflight, transports>>

\* 'jira.viewIssues' with credentials: setCredentials(credentials) and getIssues()
CommandViewIssuesLoads ==
    /\ command.running /\ command.name = "jira.viewIssues"
    /\ SetCredentials(authCall.ret.data.val)
    /\ command' = [command EXCEPT !.running = FALSE,
                                  !.load = Some([by |-> "jira.viewIssues", sent |-> TRUE,
                                                 authorization |-> axiosInstance'.val.authorization,
                                                 stored |-> secret])]
    /\ UNCHANGED <<treeVars, applied, startup, inflight, transports>>

\* the tree view answers refresh() with getChildren() at the root: up to the await
\* of getIssues(), to the early return while loading, or to the catch block when
\* getIssues() throws at once
RefreshGetChildren ==
    /\ command.refresh /\ ~command.running
    /\ expanded' = None
    /\ IF isLoading
       THEN /\ rootItems' = <<createLoadingItem>>
            /\ command' = [command EXCEPT !.refresh = FALSE]
            /\ loads' = [loads EXCEPT !.settled = "none"]
            /\ UNCHANGED <<issues, isLoading>>
       ELSE /\ command' = [command EXCEPT !.refresh = FALSE,
                                          !.load = Some(GetIssuesCall("getChildren"))]
            /\ IF axiosInstance.has
               THEN /\ isLoading' = TRUE
                    /\ loads' = [inFlight |-> loads.inFlight + 1, settled |-> "none"]
                    /\ UNCHANGED <<issues, rootItems>>
               ELSE /\ isLoading' = FALSE
                    /\ loads' = [loads EXCEPT !.settled = "rejected"]
                    /\ rootItems' = <<createErrorItem>>
                    /\ UNCHANGED issues
    /\ UNCHANGED <<apiVars, authVars, applied, startup, inflight, transports>>

\* the issue lists the service answers a tree load with here: none, or one issue
\* that is done
LoadedOnRefresh ==
    {loaded \in IssueLists : \A i \in 1..Len(loaded) : i = 1 /\ loaded[i].fields.status.name = Done}

CommandsNext ==
    \/ StartupCheck
    \/ \E b \in CommandBaseUrls :
         \E e \in (IF Falsy(b) THEN {None} ELSE {Some(v) : v \in AcceptedEmails}) :
           \E t \in (IF Falsy(e) THEN {None} ELSE {Some(v) : v \in AcceptedApiTokens}) :
             \E r \in CommandRepliesTo(~Falsy(t)) : CommandAuthenticate(b, e, t, r)
    \/ CommandAuthenticateReturns
    \/ CommandClearCredentials
    \/ \E r \in CommandRepliesTo(ValidationIssued) : CommandViewIssues(r)
    \/ CommandViewIssuesLoads
    \/ RefreshGetChildren
    \/ \E loaded \in LoadedOnRefresh : GetIssuesResolved(loaded)
    \/ GetIssuesRejected
    \/ CommandIdle /\ Tick /\ UNCHANGED <<apiVars, treeVars, auxVars>>

\* a public operation with a single request is called; nothing has been sent yet
InvokeOperation(op) ==
    /\ Invoke(op, None)
    /\ transports' = <<>>
    /\ UNCHANGED <<treeVars, applied, startup, inflight, command>>

\* the operation closure runs `this.axiosInstance!.get(...)`: the field is read when
\* the attempt runs, and the request it sends is answered
RequestAnswered(d) ==
    /\ AttemptOk(d)
    /\ transports' = Append(transports, axiosInstance)
    /\ UNCHANGED <<treeVars, applied, startup, inflight, command>>

\* the same, the request fails
RequestFails(err) ==
    /\ AttemptFail(err)
    /\ transports' = Append(transports, axiosInstance)
    /\ UNCHANGED <<treeVars, applied, startup, inflight, command>>

\* the operations with one request per attempt
SingleRequestOps == Ops \ {"createIssue"}

TransportNext ==
    \/ \E c \in CredentialSets : SetCredentials(c) /\ UNCHANGED <<treeVars, auxVars>>
    \/ \E op \in SingleRequestOps : InvokeOperation(op)
    \/ \E d \in ProjectLists : RequestAnswered(d)
    \/ \E err \in AxiosErrors : RequestFails(err)
    \/ BackoffElapsed /\ UNCHANGED <<treeVars, auxVars>>
    \/ Settle /\ UNCHANGED <<treeVars, auxVars>>

\* the API client alone
SpecApi == Init /\ [][ApiNext]_vars
\* the auth provider alone
SpecAuth == Init /\ [][AuthNext]_vars
\* the auth provider under the extension's commands, over stores left by an earlier session
SpecExtension == StoredInit /\ [][ExtensionNext]_vars
\* the issue tree provider alone
SpecTree == Init /\ [][TreeNext]_vars
\* the payloads the API client builds and the errors it shapes
SpecPayload == Init /\ [][PayloadNext]_vars
\* the startup check of activate() over the stores of an earlier session
SpecStartup == StartupInit /\ [][StartupNext]_vars
\* one getCredentials() and one authenticate() interleaved at their awaits, over the
\* stores of an earlier session
SpecOverlap == StartupInit /\ [][OverlapNext]_vars
\* the extension's commands one after another, the API client they share and the
\* tree loads their refreshes cause
SpecCommands == CommandsInit /\ [][CommandsNext]_vars
\* the API client's single-request operations with the transport of each request
SpecTransport == Init /\ [][TransportNext]_vars

(***************************************************************************)
(* Properties of the API client's retry wrapper                            *)
(***************************************************************************)
\* the activations of executeWithRetry that are over
SettledFrames == {i \in 1..Len(stack) : stack[i].pc = "settled"}

\* an error the policy retries: no HTTP status, or a status outside 400-499
Retryable(e) == ~e.status.has \/ e.status.val < 400 \/ e.status.val > 499

\* the warnings of the current invocation that name the operation op
WarningsOf(op) == SelectSeq(warnings, LAMBDA w : w.op = OperationName(op))

\* the delays the policy prescribes after failed attempts 1 and 2
PrescribedDelays == <<1000, 2000>>

\* the public operation that was invoked is over and its promise is settled
TopLevelSettled == Len(stack) = 1 /\ stack[1].pc = "settled"

\* C1: an operation whose attempts 1..k-1 fail with retryable errors and whose attempt
\* k <= 3 succeeds returns attempt k's value after exactly k attempts and exactly k-1
\* warnings of its own, the i-th carrying delay 1000ms * 2^(i-1); nothing is requested,
\* awaited or warned of after the successful attempt.
C1_RetrySuccess ==
    /\ \A i \in SettledFrames :
         LET f == stack[i]
             k == f.attempt
         IN  f.ret.kind = "value" =>
               /\ k \in 1..3
               /\ Len(f.log) = k - 1
               /\ \A j \in 1..Len(f.log) : Retryable(f.log[j])
               /\ f.warned = SubSeq(PrescribedDelays, 1, k - 1)
    /\ (TopLevelSettled /\ stack[1].ret.kind = "value") =>
         LET f == stack[1]
             k == f.attempt
         IN  /\ WarningsOf(f.op) =
                  [j \in 1..(k - 1) |-> [op |-> OperationName(f.op), attempt |-> j,
                                         delay |-> PrescribedDelays[j]]]
             /\ result.ret \in {Pending, f.ret}
             /\ f.op # "createIssue" =>
                  /\ requests = [j \in 1..k |-> RequestOf(f.op)]
                  /\ warnings = WarningsOf(f.op)
             /\ f.op \notin (VoidOps \cup {"getProjects"}) => f.ret.data.val.req = Len(requests)
    /\ result.ret.kind = "value" => (TopLevelSettled /\ stack[1].ret = result.ret)

\* C1 witness: 500, 500, then success: the value of the third request is returned after
\* two warnings with delays 1000ms and 2000ms
C1_Witness ==
    /\ TopLevelSettled
    /\ stack[1].op = "getIssue"
    /\ result.ret = Value(Some([req |-> 3]))
    /\ Len(stack[1].log) = 2
    /\ \A j \in 1..2 : stack[1].log[j].status = Some(500)
    /\ Len(warnings) = 2 /\ warnings[1].delay = 1000 /\ warnings[2].delay = 2000

\* C2: an attempt that fails with an HTTP status in 400-499 ends the operation at once:
\* that error is thrown, and no further attempt, wait or warning follows it.
C2_NoRetryOnClientError ==
    /\ \A i \in 1..Len(stack) :
         LET f == stack[i]
         IN  \A j \in 1..Len(f.log) :
               (f.log[j].status.has /\ f.log[j].status.val \in 400..499) =>
                 /\ j = Len(f.log)
                 /\ f.attempt = j
                 /\ f.pc = "settled"
                 /\ f.ret = Thrown(f.log[j])
                 /\ Len(f.warned) = j - 1
                 /\ i = 1 => /\ result.ret \in {Pending, Thrown(f.log[j])}
                             /\ Len(WarningsOf(f.op)) = j - 1
                             /\ f.op # "createIssue" => (Len(requests) = j /\ Len(warnings) = j - 1)

\* C2 witness: a 401 on the first attempt: one request, no warning, the 401 thrown
C2_Witness ==
    /\ TopLevelSettled
    /\ stack[1].op = "getIssues"
    /\ stack[1].log = <<handleApiError(ResponseError(401, None))>>
    /\ result.ret.kind = "error" /\ result.ret.error.status = Some(401)
    /\ Len(requests) = 1
    /\ warnings = <<>>

\* how often the current invocation issued the request
TimesIssued(request) == Cardinality({i \in 1..Len(requests) : requests[i] = request})

\* C3: one invocation issues no remote request more than 3 times, the project-list
\* request of createIssue's default-project resolution included.
C3_AtMostThreeAttempts == \A request \in Endpoints : TimesIssued(request) <= 3

\* C4: when all 3 attempts fail with retryable errors the operation throws the error
\* of the third attempt, after exactly 2 warnings of its own, with no wait and no
\* warning after the third failure.
C4_RetryExhaustion ==
    /\ \A i \in 1..Len(stack) :
         LET f == stack[i]
         IN  (Len(f.log) = 3 /\ \A j \in 1..3 : Retryable(f.log[j])) =>
               /\ f.pc = "settled"
               /\ f.attempt = 3
               /\ f.ret = Thrown(f.log[3])
               /\ f.ret.error # Placeholder(f.op)
               /\ f.warned = PrescribedDelays
               /\ i = 1 => /\ result.ret \in {Pending, Thrown(f.log[3])}
                           /\ Len(WarningsOf(f.op)) = 2
                           /\ f.op # "createIssue" => (Len(requests) = 3 /\ Len(warnings) = 2)
    /\ \A i \in 1..Len(stack) : Len(stack[i].log) <= 3

\* C4 witness: three retryable failures, the third unlike the first two, and the third
\* is what the caller gets
C4_Witness ==
    /\ TopLevelSettled
    /\ Len(stack[1].log) = 3
    /\ stack[1].log[1].status = Some(500)
    /\ stack[1].log[2].status = Some(500)
    /\ stack[1].log[3] = handleApiError(RequestError)
    /\ result.ret = Thrown(handleApiError(RequestError))
    /\ Len(warnings) = 2

\* C5: an operation invoked before any setCredentials throws NotAuthenticated without
\* a request, a retry loop or a warning; a request is only issued once setCredentials
\* has been called.
C5_FailFastWithoutCredentials ==
    /\ ~axiosInstance.has =>
         /\ stack = <<>> /\ requests = <<>> /\ warnings = <<>>
         /\ result.op # "none" => result.ret = Thrown(NotAuthenticated)
    /\ result.ret = Thrown(NotAuthenticated) => (stack = <<>> /\ requests = <<>> /\ warnings = <<>>)
    /\ (requests # <<>> \/ stack # <<>>) => (axiosInstance.has /\ credentials.has)

\* C5 witness: createIssue was invoked on a client that never got credentials
C5_Witness ==
    /\ ~axiosInstance.has /\ ~credentials.has
    /\ result.op = "createIssue"
    /\ result.ret = Thrown(NotAuthenticated)

(***************************************************************************)
(* Properties of the credential lifecycle                                  *)
(***************************************************************************)
\* a validation request is answered with HTTP 200 and a body that has an email
Succeeds(reply) == reply.kind = "resolved" /\ reply.status = 200 /\ reply.emailAddress

DayMs == 24 * 60 * 60 * 1000

\* the call found a credential secret that deserializes
FoundCredentials == authCall.before.secret.has /\ JSONparse(authCall.before.secret.val).ok

\* the call found a last-validated timestamp older than 24 hours
FoundStaleTimestamp ==
    /\ authCall.before.lastValidated.has
    /\ authCall.before.now - authCall.before.lastValidated.val > DayMs

\* the call left the credential secret and the timestamp as it found them
StoresUntouched ==
    /\ secret = authCall.before.secret
    /\ lastValidated = authCall.before.lastValidated

\* C6: authenticate() writes the credential secret only after the remote validation of
\* the typed credentials succeeded; when validation fails it throws and leaves the
\* credential secret and the last-validated timestamp as they were.
C6_ValidateBeforePersist ==
    authCall.op = "authenticate" =>
      /\ authCall.ret.kind = "error" => StoresUntouched
      /\ (Len(authCall.validated) = 1 /\ ~Succeeds(authCall.validated[1])) =>
            (authCall.ret.kind = "error" /\ StoresUntouched)
      /\ authCall.ret.kind = "value" =>
            /\ Len(authCall.validated) = 1 /\ Succeeds(authCall.validated[1])
            /\ secret.has
      /\ secret # authCall.before.secret => authCall.ret.kind = "value"

\* C6 witness: credentials were stored, a later authenticate() failed its validation
\* with a 401 and the stored credentials are still there
C6_Witness ==
    /\ authCall.op = "authenticate"
    /\ Len(authCall.validated) = 1
    /\ authCall.validated[1].kind = "rejected" /\ authCall.validated[1].status = 401
    /\ authCall.ret.kind = "error"
    /\ authCall.before.secret.has
    /\ secret = authCall.before.secret

\* C7: with credentials stored and a timestamp older than 24h, getCredentials() issues
\* exactly one validation request; if it fails the call returns null and removes the
\* secret and the timestamp; from then on getCredentials() returns null without a
\* request, and only a successful authenticate() brings a secret back.
C7_StaleRevalidation ==
    /\ [](authCall.op = "getCredentials" =>
            /\ (FoundCredentials /\ FoundStaleTimestamp) =>
                  /\ Len(authCall.validated) = 1
                  /\ ~Succeeds(authCall.validated[1]) =>
                        /\ authCall.ret = Value(None)
                        /\ secret = None
                        /\ lastValidated = None
            /\ ~authCall.before.secret.has =>
                  /\ authCall.ret = Value(None)
                  /\ authCall.validated = <<>>
                  /\ secret = None)
    /\ [][(~secret.has /\ secret'.has) =>
            (authCall'.op = "authenticate" /\ authCall'.ret.kind = "value")]_vars

\* C7 witness: a secret with a 36 hours old timestamp, the validation answered 500
C7_Witness ==
    /\ authCall.op = "getCredentials"
    /\ FoundCredentials /\ FoundStaleTimestamp
    /\ Len(authCall.validated) = 1
    /\ authCall.validated[1].kind = "rejected" /\ authCall.validated[1].status = 500
    /\ authCall.ret = Value(None)
    /\ secret = None /\ lastValidated = None

\* C8: with credentials stored, getCredentials() issues a validation request exactly
\* when the timestamp is absent or more than 24 hours old; otherwise, exactly 24 hours
\* included, it issues none and returns the stored credentials, stores untouched.
C8_RevalidationCondition ==
    (authCall.op = "getCredentials" /\ FoundCredentials) =>
      /\ Len(authCall.validated) <= 1
      /\ (Len(authCall.validated) = 1) <=> (~authCall.before.lastValidated.has \/ FoundStaleTimestamp)
      /\ authCall.validated = <<>> =>
            /\ authCall.ret.data.has
            /\ JSONstringify(authCall.ret.data.val) = authCall.before.secret.val
            /\ StoresUntouched

\* C8 witness: exactly 24 hours after the last validation: no request, credentials returned
C8_Witness ==
    /\ authCall.op = "getCredentials"
    /\ FoundCredentials
    /\ authCall.before.lastValidated.has
    /\ authCall.before.now - authCall.before.lastValidated.val = DayMs
    /\ authCall.validated = <<>>
    /\ authCall.ret.data.has

\* C9: getAuthenticationStatus() leaves the credential secret and the last-validated
\* timestamp unchanged whatever the service answers, and returns {authenticated: false}
\* on a remote error.
C9_StatusProbeNonDestructive ==
    authCall.op = "getAuthenticationStatus" =>
      /\ StoresUntouched
      /\ (\E i \in 1..Len(authCall.validated) : authCall.validated[i].kind # "resolved") =>
            ~authCall.ret.data.val.authenticated
      /\ (\E i \in 1..Len(authCall.probed) : authCall.probed[i].kind # "resolved") =>
            ~authCall.ret.data.val.authenticated

\* the text ends with '/'
EndsWithSlash(s) == Len(s) > 0 /\ s[Len(s)] = "/"

\* c is what was typed, the base URL without its last '/'
NormalizedFrom(c, typed) ==
    /\ c.baseUrl \o <<"/">> = typed.baseUrl.val
    /\ c.email = typed.email.val
    /\ c.apiToken = typed.apiToken.val

\* C10: after authenticate() succeeds with a base URL ending in '/', storage holds the
\* typed email and token and the base URL without that slash, and a following
\* getCredentials() within the revalidation window returns exactly that value.
C10_RoundTrip ==
    /\ (authCall.op = "authenticate" /\ authCall.ret.kind = "value"
          /\ EndsWithSlash(authCall.input.val.baseUrl.val)) =>
         /\ secret.has
         /\ JSONparse(secret.val).ok
         /\ NormalizedFrom(JSONparse(secret.val).val, authCall.input.val)
         /\ NormalizedFrom(authCall.ret.data.val, authCall.input.val)
    /\ (authCall.op = "getCredentials" /\ authCall.before.secret.has
          /\ authCall.lastAuth.has /\ EndsWithSlash(authCall.lastAuth.val.baseUrl.val)
          /\ authCall.before.lastValidated.has
          /\ authCall.before.now - authCall.before.lastValidated.val <= DayMs) =>
         /\ authCall.ret.data.has
         /\ NormalizedFrom(authCall.ret.data.val, authCall.lastAuth.val)

\* C10 witness: "https://x/" was typed, and getCredentials() within the window gives
\* back "https://x" with the typed email and token
C10_Witness ==
    /\ authCall.op = "getCredentials"
    /\ authCall.validated = <<>>
    /\ authCall.before.lastValidated.has
    /\ authCall.lastAuth.has
    /\ authCall.lastAuth.val.baseUrl.val = HTTPS \o <<"x", "/">>
    /\ authCall.ret.data.has
    /\ authCall.ret.data.val.baseUrl = HTTPS \o <<"x">>
    /\ authCall.ret.data.val.email = authCall.lastAuth.val.email.val

(***************************************************************************)
(* Properties of the auth provider: storage, prompts, classification       *)
(***************************************************************************)
\* the call found a non-empty secret that JSON.parse throws on
FoundCorruptSecret ==
    /\ authCall.before.secret.has
    /\ authCall.before.secret.val # <<>>
    /\ ~JSONparse(authCall.before.secret.val).ok

\* C11: a getCredentials() that finds a stored secret it cannot deserialize does not
\* throw: it returns null, issues no validation request, shows no warning and leaves
\* the credential secret and the last-validated timestamp absent.
C11_CorruptedStorage ==
    (authCall.op = "getCredentials" /\ FoundCorruptSecret) =>
        /\ authCall.ret = Value(None)
        /\ authCall.validated = <<>>
        /\ secret = None
        /\ lastValidated = None

\* a getCredentials() found a truncated serialization next to a timestamp and cleared both
C11_Witness ==
    /\ authCall.op = "getCredentials"
    /\ FoundCorruptSecret
    /\ Len(authCall.before.secret.val) > 1
    /\ authCall.before.lastValidated.has
    /\ authCall.ret = Value(None)
    /\ secret = None /\ lastValidated = None

\* C12: clearCredentials() leaves the credential secret absent, the timestamp absent
\* and the 'jira:authenticated' flag false whatever it found, a second clear included,
\* and a getCredentials() right after it returns null without a validation request.
C12_ClearCredentials ==
    /\ [](authCall.op = "clearCredentials" =>
            secret = None /\ lastValidated = None /\ authenticated = FALSE)
    /\ [][(authCall.op = "clearCredentials" /\ authCall'.op = "clearCredentials") =>
            (secret' = secret /\ lastValidated' = lastValidated /\ authenticated' = authenticated)]_vars
    /\ [][(authCall.op = "clearCredentials" /\ authCall'.op = "getCredentials") =>
            (authCall'.ret = Value(None) /\ authCall'.validated = <<>>)]_vars

\* a clear found credentials, a timestamp and the flag set, and removed all three
C12_Witness ==
    /\ authCall.op = "clearCredentials"
    /\ authCall.before.secret.has
    /\ authCall.before.lastValidated.has
    /\ authCall.before.authenticated
    /\ secret = None /\ lastValidated = None /\ ~authenticated

\* the call wrote a time into the last-validated timestamp
TimestampSet == lastValidated.has /\ lastValidated # authCall.before.lastValidated

\* the call issued one validation request and the service's answer passed
RevalidationSucceeded == Len(authCall.validated) = 1 /\ Succeeds(authCall.validated[1])

\* C13: the last-validated timestamp is set, to the current time, exactly when a
\* getCredentials() revalidation succeeds: authenticate(), getAuthenticationStatus()
\* and a failed validation never set it.
C13_TimestampOnlyOnRevalidation ==
    /\ (authCall.op = "getCredentials" /\ RevalidationSucceeded) =>
           lastValidated = Some(authCall.before.now)
    /\ (authCall.op = "getCredentials" /\ TimestampSet) => RevalidationSucceeded
    /\ authCall.op \in {"authenticate", "getAuthenticationStatus"} => ~TimestampSet
    /\ (Len(authCall.validated) = 1 /\ ~Succeeds(authCall.validated[1])) => ~TimestampSet

\* the value a prompt of authenticate() gave is missing: cancelled or empty
Missing(value) == ~value.has \/ value.val = <<>>

\* the prompt, 1 to 3, at which authenticate() met a missing value, 0 when it met none
MissingStep ==
    IF Missing(authCall.input.val.baseUrl) THEN 1
    ELSE IF Missing(authCall.input.val.email) THEN 2
    ELSE IF Missing(authCall.input.val.apiToken) THEN 3
    ELSE 0

\* the error authenticate() throws for a value missing at a prompt
MissingInputError(step) ==
    IF step = 1 THEN Thrown("Base URL is required")
    ELSE IF step = 2 THEN Thrown("Email is required")
    ELSE Thrown("API token is required")

\* C14: an authenticate() whose base URL, email or API token prompt is cancelled or
\* yields an empty value throws the missing-input error of that prompt, shows no later
\* prompt, issues no validation request and leaves the stores as it found them.
C14_MissingInputAborts ==
    (authCall.op = "authenticate" /\ MissingStep # 0) =>
        /\ authCall.ret = MissingInputError(MissingStep)
        /\ authCall.prompts = MissingStep
        /\ authCall.validated = <<>>
        /\ ~authCall.info
        /\ StoresUntouched

\* an authenticate() over stored credentials got an empty email at the second prompt
C14_Witness ==
    /\ authCall.op = "authenticate"
    /\ authCall.input.val.baseUrl.has /\ authCall.input.val.baseUrl.val # <<>>
    /\ authCall.input.val.email = Some(<<>>)
    /\ authCall.ret = Thrown("Email is required")
    /\ authCall.prompts = 2
    /\ authCall.before.secret.has
    /\ secret = authCall.before.secret

\* the error the failure classification prescribes for an answer that is not a 200:
\* InvalidCredentials, PermissionDenied, RemoteError with the status and its text,
\* Unreachable, ValidationFailed with the underlying message
ClassifiedError(reply) ==
    IF reply.kind \in {"resolved", "rejected"}
    THEN IF reply.status = 401
         THEN "Invalid email or API token. Please check your credentials."
         ELSE IF reply.status = 403
         THEN "Access denied. Please check your Jira permissions."
         ELSE "Jira API error: " \o ToString(reply.status) \o " - " \o reply.statusText
    ELSE IF reply.code \in {"ENOTFOUND", "ECONNREFUSED"}
         THEN "Cannot connect to Jira. Please check your base URL and internet connection."
         ELSE "Authentication failed: " \o reply.message

\* the answer carries an HTTP status other than 200, or no response arrived at all
NotA200(reply) == reply.kind = "failed" \/ reply.status # 200

\* C15: a validation that fails on an answer other than a 200 throws by the answer's
\* class: 401 invalid credentials, 403 permission denied, every other HTTP status a
\* remote error carrying status and status text, ENOTFOUND and ECONNREFUSED
\* unreachable, every other transport error validation failed with its message.
C15_FailureClassification ==
    (authCall.op = "authenticate" /\ Len(authCall.validated) = 1
        /\ NotA200(authCall.validated[1])) =>
        authCall.ret = Thrown(ClassifiedError(authCall.validated[1]))

\* the answer is a 200 whose body has no usable emailAddress
OkWithoutEmail(reply) ==
    reply.kind = "resolved" /\ reply.status = 200 /\ ~reply.emailAddress

\* C16: a validation succeeds exactly when the answer is a 200 whose body has a
\* non-empty emailAddress; on a 200 without it authenticate() throws and stores
\* nothing, and a getCredentials() revalidation clears the stored credentials.
C16_SuccessNeedsEmail ==
    /\ (authCall.op = "authenticate" /\ Len(authCall.validated) = 1) =>
          /\ authCall.ret.kind = "value" <=> Succeeds(authCall.validated[1])
          /\ OkWithoutEmail(authCall.validated[1]) =>
                (authCall.ret.kind = "error" /\ StoresUntouched)
    /\ (authCall.op = "getCredentials" /\ Len(authCall.validated) = 1) =>
          /\ authCall.ret.data.has <=> Succeeds(authCall.validated[1])
          /\ OkWithoutEmail(authCall.validated[1]) =>
                (secret = None /\ lastValidated = None)

\* a getCredentials() revalidation got a 200 without emailAddress and cleared the
\* credentials it had found
C16_Witness ==
    /\ authCall.op = "getCredentials"
    /\ FoundCredentials
    /\ Len(authCall.validated) = 1 /\ OkWithoutEmail(authCall.validated[1])
    /\ authCall.ret = Value(None)
    /\ secret = None

(***************************************************************************)
(* Properties of the issue tree                                            *)
(***************************************************************************)
\* the four categories with the patterns that put a status in them
CategoryPatterns ==
    <<[name |-> <<"I", "n", " ", "P", "r", "o", "g", "r", "e", "s", "s">>,
       patterns |-> {<<"p", "r", "o", "g", "r", "e", "s", "s">>, <<"d", "e", "v", "e", "l", "o", "p", "m", "e", "n", "t">>}],
      [name |-> <<"T", "o", " ", "D", "o">>,
       patterns |-> {<<"t", "o", " ", "d", "o">>, <<"o", "p", "e", "n">>, <<"b", "a", "c", "k", "l", "o", "g">>}],
      [name |-> <<"R", "e", "v", "i", "e", "w">>,
       patterns |-> {<<"r", "e", "v", "i", "e", "w">>, <<"t", "e", "s", "t", "i", "n", "g">>}],
      [name |-> <<"D", "o", "n", "e">>,
       patterns |-> {<<"d", "o", "n", "e">>, <<"c", "l", "o", "s", "e", "d">>, <<"r", "e", "s", "o", "l", "v", "e", "d">>}]>>

\* the issue's status contains one of the category's patterns, whatever the case
Matches(issue, c) ==
    \E p \in CategoryPatterns[c].patterns :
        IncludesText(toLowerCase(issue.fields.status.name), p)

\* the item is the category item of category c: its label is the name and a count
IsCategoryItem(item, c) ==
    /\ item.itemType = "category"
    /\ StartsWith(item.label, CategoryPatterns[c].name \o <<" ", "(">>)

\* the latest expansion shows the issue among the children
Shown(issue) ==
    \E k \in 1..Len(expanded.val.children) : expanded.val.children[k].issue = Some(issue)

\* C17: every loaded issue whose status contains 'progress' or 'development' is
\* among the children of the 'In Progress' category item the root produced, and
\* among the children of no other category item.
C17_InProgressChildren ==
    /\ \A i \in 1..Len(issues) :
         (Matches(issues[i], 1)
             /\ \E k \in 1..Len(rootItems) : rootItems[k].contextValue = "jiraCategory") =>
            \E k \in 1..Len(rootItems) : IsCategoryItem(rootItems[k], 1)
    /\ expanded.has =>
         \A i \in 1..Len(issues) :
            Matches(issues[i], 1) =>
               (Shown(issues[i]) <=> IsCategoryItem(expanded.val.element, 1))

\* C18: a loaded issue whose status matches none of the four patterns is among the
\* children of no category item the root produced.
C18_UnmatchedHidden ==
    expanded.has =>
        \A i \in 1..Len(issues) :
            (\A c \in 1..Len(CategoryPatterns) : ~Matches(issues[i], c)) => ~Shown(issues[i])

\* C19: the root returns the category item of a category only if at least one
\* loaded issue matches the category.
C19_EmptyCategoriesOmitted ==
    \A k \in 1..Len(rootItems) :
        \A c \in 1..Len(CategoryPatterns) :
            IsCategoryItem(rootItems[k], c) =>
                \E i \in 1..Len(issues) : Matches(issues[i], c)

\* two issues were loaded, all in one category, and the root returned that item alone
C19_Witness ==
    /\ Len(issues) = 2
    /\ Len(rootItems) = 1
    /\ IsCategoryItem(rootItems[1], 4)
    /\ rootItems[1].label = <<"D", "o", "n", "e", " ", "(", "2", ")">>

\* the count a category item's label shows
LabelCount(item) ==
    CHOOSE n \in 0..Len(issues) :
        \E c \in 1..Len(CategoryPatterns) :
            item.label = CategoryPatterns[c].name \o <<" ", "(">> \o NumberToString(n) \o <<")">>

\* the sum of the counts the first k root items show
RECURSIVE SumOfCounts(_)
SumOfCounts(k) ==
    IF k = 0 THEN 0
    ELSE SumOfCounts(k - 1)
            + (IF rootItems[k].contextValue = "jiraCategory" THEN LabelCount(rootItems[k]) ELSE 0)

\* C20: no loaded issue is counted in two categories, so the counts the category
\* labels show sum to at most the number of loaded issues.
C20_CategoriesDisjoint ==
    /\ \A i \in 1..Len(issues) :
           Cardinality({c \in 1..Len(CategoryPatterns) : Matches(issues[i], c)}) <= 1
    /\ SumOfCounts(Len(rootItems)) <= Len(issues)

(***************************************************************************)
(* Properties of createIssue's project resolution and of the backoff       *)
(***************************************************************************)
\* the createIssue invocation at hand, if there is one
CreateFrame == stack[1]
IsCreateIssue == stack # <<>> /\ stack[1].op = "createIssue"

\* C21: a createIssue without projectKey posts the create request with the key of the
\* first project of the list its project request was answered with; a createIssue
\* with a projectKey posts that key and issues no project-list request.
C21_DefaultProject ==
    IsCreateIssue =>
        IF CreateFrame.projectKey.has
        THEN /\ \A i \in 1..Len(CreateFrame.posted) :
                    CreateFrame.posted[i].key = CreateFrame.projectKey.val
             /\ \A i \in 1..Len(requests) : requests[i] # "GET /project/search"
        ELSE \A i \in 1..Len(CreateFrame.posted) :
                LET answer == CreateFrame.projects[CreateFrame.posted[i].attempt]
                IN  /\ answer.kind = "value"
                    /\ Len(answer.data.val) > 0
                    /\ CreateFrame.posted[i].key = answer.data.val[1]

\* a createIssue without projectKey was answered AAA, BBB and posted AAA
C21_Witness ==
    /\ IsCreateIssue
    /\ ~CreateFrame.projectKey.has
    /\ result.op = "createIssue" /\ result.ret.kind = "value"
    /\ CreateFrame.projects = <<Value(Some(<<"AAA", "BBB">>))>>
    /\ CreateFrame.posted = <<[attempt |-> 1, key |-> "AAA"]>>

\* every project-list request of the invocation so far was answered with an empty list
OnlyEmptyProjectLists ==
    /\ CreateFrame.projects # <<>>
    /\ \A i \in 1..Len(CreateFrame.projects) :
          /\ CreateFrame.projects[i].kind = "value"
          /\ Len(CreateFrame.projects[i].data.val) = 0

\* C22: a createIssue without projectKey whose project list is empty never issues
\* POST /issue and fails with the no-accessible-projects error.
C22_NoAccessibleProjects ==
    (IsCreateIssue /\ ~CreateFrame.projectKey.has /\ OnlyEmptyProjectLists) =>
        /\ \A i \in 1..Len(requests) : requests[i] # "POST /issue"
        /\ CreateFrame.posted = <<>>
        /\ result.ret.kind # "pending" =>
              /\ result.ret.kind = "error"
              /\ result.ret.error.msg = "No accessible projects found"
              /\ ~result.ret.error.status.has

\* a createIssue without projectKey met an empty project list at each of its attempts
\* and failed with the no-accessible-projects error
C22_Witness ==
    /\ IsCreateIssue /\ ~CreateFrame.projectKey.has
    /\ OnlyEmptyProjectLists
    /\ Len(CreateFrame.projects) = maxRetries
    /\ result.op = "createIssue"
    /\ result.ret.kind = "error"
    /\ result.ret.error.msg = "No accessible projects found"

\* the backoff the invocation has announced so far, in ms: one wait per warning
RECURSIVE TotalBackoff(_)
TotalBackoff(n) == IF n = 0 THEN 0 ELSE TotalBackoff(n - 1) + warnings[n].delay

\* C25: one invocation of an operation, createIssue without projectKey included,
\* waits at most 3000 ms of backoff in all (1000 ms + 2000 ms).
C25_BackoffBound == TotalBackoff(Len(warnings)) <= 3000

(***************************************************************************)
(* Properties of the root of the issue tree                                *)
(***************************************************************************)
\* C27: whatever the provider's state (issues loaded, none, a load in flight, a load
\* failed), the array the root getChildren() resolves to holds only items that have
\* a label and itemType 'category'.
C27_RootItemsAreCategories ==
    \A k \in 1..Len(rootItems) :
        /\ rootItems[k].itemType = "category"
        /\ rootItems[k].label # <<>>

\* a load failed after an earlier load had filled the issues
C27_Witness ==
    /\ ~isLoading
    /\ Len(issues) > 0
    /\ rootItems = <<createErrorItem>>

(***************************************************************************)
(* Properties of what authenticate() stores                                *)
(***************************************************************************)
\* C28: the credentials authenticate() has written to storage have a baseUrl that
\* does not end with '/', whatever accepted base URL was typed.
C28_StoredBaseUrlNoTrailingSlash ==
    (secret.has /\ JSONparse(secret.val).ok) =>
        ~EndsWithSlash(JSONparse(secret.val).val.baseUrl)

\* the operations that read the credentials through getCredentials()
ReadingOps == {"getCredentials", "isAuthenticated", "getAuthenticationStatus"}

\* the step wrote a credential value: the secret is present afterwards and is not
\* what it was
SecretWritten == secret'.has /\ secret' # secret

\* the step removed the credential secret
SecretRemoved == secret.has /\ ~secret'.has

\* the step is an authenticate() whose validation request succeeded and that stored
\* the credentials it returns
ValidatedAuthenticate ==
    /\ authCall'.op = "authenticate"
    /\ authCall'.ret.kind = "value"
    /\ Len(authCall'.validated) = 1 /\ Succeeds(authCall'.validated[1])
    /\ secret' = Some(JSONstringify(authCall'.ret.data.val))

\* the step is a reading operation whose revalidation request failed
FailedRevalidation ==
    /\ authCall'.op \in ReadingOps
    /\ Len(authCall'.validated) = 1 /\ ~Succeeds(authCall'.validated[1])

\* the step is a reading operation that found a secret it cannot deserialize
CorruptedData ==
    /\ authCall'.op \in ReadingOps
    /\ ~JSONparse(secret.val).ok

\* C29: a credential value enters storage, or replaces another, only as the last step
\* of an authenticate() whose remote validation succeeded; getCredentials,
\* isAuthenticated, getAuthenticationStatus and clearCredentials never write one; the
\* secret becomes absent only through clearCredentials, a failed revalidation or
\* corrupted data.
C29_CredentialsOnlyThroughAuthenticate ==
    [][/\ SecretWritten => ValidatedAuthenticate
       /\ authCall'.op \in ReadingOps \cup {"clearCredentials"} => ~SecretWritten
       /\ SecretRemoved =>
             \/ authCall'.op = "clearCredentials"
             \/ FailedRevalidation
             \/ CorruptedData]_vars

\* C29 witness: a validated authenticate() has replaced the secret an earlier one stored
C29_Witness ==
    /\ authCall.op = "authenticate" /\ authCall.ret.kind = "value"
    /\ authCall.before.secret.has /\ JSONparse(authCall.before.secret.val).ok
    /\ secret.has /\ secret # authCall.before.secret

(***************************************************************************)
(* Properties of overlapping calls                                         *)
(***************************************************************************)
\* both calls have returned
BothComplete ==
    /\ inflight.get.has /\ inflight.get.val.pc = "done"
    /\ inflight.auth.has /\ inflight.auth.val.pc = "done"

\* C30: credentials that authenticate() stored while a getCredentials() revalidation
\* of the earlier ones was in flight are still in storage once both calls have
\* completed, even when that revalidation failed.
C30_FreshCredentialsSurvive ==
    (BothComplete /\ inflight.raced.has) => secret = inflight.raced

(***************************************************************************)
(* Properties of the startup check                                         *)
(***************************************************************************)
\* C26: on activation over stored credentials, a current-user request has been made
\* before the 'jira:authenticated' flag is true and before the API client holds
\* the credentials.
C26_ValidatedOnStartup ==
    (authenticated \/ credentials.has) => startup.validations >= 1

(***************************************************************************)
(* Properties of payloads and shaped errors                                *)
(***************************************************************************)
\* C23: the body addComment posts for a comment text is a document whose flattened
\* text, as the issue webview flattens comment bodies, is that text.
C23_CommentRoundTrip ==
    applied.fn = "addComment" =>
        /\ applied.body.type = "doc"
        /\ FlattenCommentBody(applied.body) = applied.comment

\* a comment with a line break and a markup character was built and flattens to itself
C23_Witness ==
    /\ applied.fn = "addComment"
    /\ applied.comment = <<"a", "\n", "<">>
    /\ FlattenCommentBody(applied.body) = <<"a", "\n", "<">>

\* the detail the shaping rule picks for an error response: the first entry of the
\* body's error list, else the body's message, else the status text
ShapedDetail(error) ==
    IF error.data.has /\ error.data.val.errorMessages.has
          /\ error.data.val.errorMessages.val # <<>>
    THEN error.data.val.errorMessages.val[1]
    ELSE IF error.data.has /\ error.data.val.message.has /\ error.data.val.message.val # ""
    THEN error.data.val.message.val
    ELSE error.statusText

NetworkErrorMessage ==
    "Network error: Unable to connect to Jira. Please check your internet connection."

\* the shaped error of an error response carries the status and the rule's detail
ResponseShaped ==
    /\ applied.shaped.status = Some(applied.error.status)
    /\ applied.shaped.msg = "Jira API error (" \o ToString(applied.error.status) \o "): "
                                \o ShapedDetail(applied.error)

\* C24: the shaped error of an error response carries the status and a message made of
\* the first entry of the body's error list, else the body's message, else the status
\* text; the shaped error of an error without a response carries no status and has
\* the network-error message.
C24_ErrorShaping ==
    applied.fn = "handleApiError" =>
        IF applied.error.kind = "response" THEN ResponseShaped
        ELSE /\ ~applied.shaped.status.has
             /\ applied.shaped.msg = NetworkErrorMessage

\* C24, amended: as C24 for an error response; without a response the shaped error
\* carries no status, and has the network-error message when the request was sent
\* and 'Request error: ' with the underlying message when it was not.
C24_ErrorShapingAmended ==
    applied.fn = "handleApiError" =>
        IF applied.error.kind = "response" THEN ResponseShaped
        ELSE /\ ~applied.shaped.status.has
             /\ applied.shaped.msg = IF applied.error.kind = "request" THEN NetworkErrorMessage
                                     ELSE "Request error: " \o applied.error.message

\* a 404 whose body has two error messages and a message was shaped with the first
C24_Witness ==
    /\ applied.fn = "handleApiError"
    /\ applied.error.kind = "response" /\ applied.error.status = 404
    /\ applied.error.data.has
    /\ applied.error.data.val.message = Some("Bad request")
    /\ applied.error.data.val.errorMessages.has
    /\ Len(applied.error.data.val.errorMessages.val) = 2
    /\ applied.shaped.msg = "Jira API error (404): Field is required"
    /\ applied.shaped.status = Some(404)

(***************************************************************************)
(* Properties of createIssue's requests                                    *)
(***************************************************************************)
\* the invocation issued its follow-up GET at position i, which it does only once
\* its POST /issue has been answered with the created issue
PostSucceededBefore(i) == requests[i] = "GET /issue/{key}"

\* C31: within one invocation of createIssue, once POST /issue has succeeded it is
\* not issued again, even when the follow-up GET of the created issue fails with a
\* retryable error.
C31_AtMostOneIssue ==
    result.op = "createIssue" =>
        \A i \in 1..Len(requests) : \A j \in (i + 1)..Len(requests) :
            PostSucceededBefore(i) => requests[j] # "POST /issue"

(***************************************************************************)
(* Properties of a category's count                                        *)
(***************************************************************************)
\* C32: the count in the label of a category item the root returned equals the
\* number of issue items getChildren(categoryItem) returns for it, the issue list
\* being the one the root built the item from.
C32_CountMatchesChildren ==
    (expanded.has /\ expanded.val.element.contextValue = "jiraCategory") =>
        LabelCount(expanded.val.element) = Len(expanded.val.children)

(***************************************************************************)
(* Properties of the commands and the API client they share                *)
(***************************************************************************)
\* the 'jira.authenticate' command has completed and its authenticate() succeeded
AuthenticateCommandSucceeded ==
    /\ command.name = "jira.authenticate" /\ ~command.running
    /\ authCall.op = "authenticate" /\ authCall.ret.kind = "value"

\* the Authorization header setCredentials() builds from credentials c
AuthorizationOf(c) == <<"Basic">> \o c.email \o <<":">> \o c.apiToken

\* the tree load the latest command's refresh caused has called getIssues()
RefreshLoaded == command.load.has /\ command.load.val.by = "getChildren"

\* C33: once 'jira.authenticate' has completed successfully the API client holds
\* exactly the credentials just stored, and the tree load its refresh causes sends
\* its request with them.
C33_ClientFollowsAuthentication ==
    AuthenticateCommandSucceeded =>
        /\ credentials = authCall.ret.data
        /\ RefreshLoaded =>
              /\ command.load.val.sent
              /\ command.load.val.authorization = AuthorizationOf(authCall.ret.data.val)

\* C34: no request of the API client leaves while the credential storage is empty,
\* and the tree load caused by the refresh of 'jira.clearCredentials' sends none.
C34_ClearedCredentialsUnused ==
    /\ (command.load.has /\ command.load.val.sent) => command.load.val.stored.has
    /\ (command.name = "jira.clearCredentials" /\ RefreshLoaded) => ~command.load.val.sent

(***************************************************************************)
(* Properties of the 'jira:authenticated' flag                             *)
(***************************************************************************)
\* no command is executing: none is between its awaits, and the startup check has
\* not begun or is over
NoCommandExecuting ==
    /\ ~command.running
    /\ IF command.name = "none" THEN startup.pc = "off" \/ ActivationSettled ELSE TRUE

\* the step is a 'jira.authenticate' whose authenticate() throws
AuthenticateCommandFails ==
    /\ ~command.running
    /\ command'.name = "jira.authenticate" /\ ~command'.running
    /\ authCall'.op = "authenticate" /\ authCall'.ret.kind = "error"

\* C38: over commands that do not overlap (the startup check, 'jira.authenticate',
\* 'jira.clearCredentials', commands calling getCredentials), whenever no command is
\* executing the 'jira:authenticated' flag is true only if a credential secret is
\* in storage; a failed 'jira.authenticate' leaves the flag and the secret as they
\* were.
C38_FlagImpliesStoredCredentials ==
    /\ [](NoCommandExecuting => (authenticated => secret.has))
    /\ [][AuthenticateCommandFails =>
             (authenticated' = authenticated /\ secret' = secret)]_vars

\* C38 witness: with the flag set and credentials stored, a 'jira.authenticate' was
\* refused by the service and left both
C38_Witness ==
    /\ command.name = "jira.authenticate" /\ ~command.running
    /\ authCall.op = "authenticate" /\ authCall.ret.kind = "error"
    /\ Len(authCall.validated) = 1
    /\ authCall.before.authenticated /\ authCall.before.secret.has
    /\ authenticated /\ secret = authCall.before.secret

(***************************************************************************)
(* Properties of the credentials an invocation uses                        *)
(***************************************************************************)
\* C35: all requests of one invocation of an operation go through the transport of
\* one credential set, also when setCredentials() is called while it waits in
\* backoff.
C35_OneCredentialSet ==
    \A i \in 1..Len(transports) : transports[i] = transports[1]

(***************************************************************************)
(* Properties of the tree's loads                                          *)
(***************************************************************************)
\* C36: at most one getIssues() call of the provider is in flight; while one is
\* (isLoading true), a step that settles no call starts none, and what the root
\* returns in it is exactly one loading placeholder.
C36_SingleLoadInFlight ==
    /\ [](loads.inFlight <= 1)
    /\ [][(isLoading /\ loads'.inFlight >= loads.inFlight) =>
             /\ loads'.inFlight = loads.inFlight
             /\ rootItems' = rootItems \/ rootItems' = <<createLoadingItem>>]_vars

\* C36 witness: with issues loaded earlier and a load in flight, the root was asked
\* again and returned the loading placeholder
C36_Witness ==
    /\ isLoading /\ loads.inFlight = 1
    /\ Len(issues) > 0
    /\ rootItems = <<createLoadingItem>>

\* C37: when getIssues() fails during a root getChildren(), the call resolves to the
\* error placeholder alone and leaves the cached issues as they were; isLoading is
\* false after a failed and after a successful load, and true only while a load is
\* in flight.
C37_LoadFailureContained ==
    /\ [](loads.settled = "rejected" => rootItems = <<createErrorItem>>)
    /\ [](loads.settled # "none" => ~isLoading)
    /\ [](isLoading => loads.inFlight > 0)
    /\ [][(loads'.settled = "rejected" /\ loads' # loads) => issues' = issues]_vars

\* C37 witness: a load failed after an earlier load had cached issues, which are kept
C37_Witness ==
    /\ loads.settled = "rejected" /\ loads.inFlight = 0
    /\ ~isLoading
    /\ Len(issues) > 0
    /\ rootItems = <<createErrorItem>>
====
